---- MODULE Spec2Model ----
(***************************************************************************)
(* State-machine model of the mxwhisper media ingestion pipeline.          *)
(*                                                                         *)
(* Part I  (SpecJobs):  the Job row life cycle under DownloadAudioWorkflow *)
(*                      and TranscribeWorkflow, with Temporal's activity   *)
(*                      retries.                                           *)
(* Part II (SpecStore): the content store: AudioFileService ingest         *)
(*                      (upload / download), deduplication and delete.     *)
(***************************************************************************)
EXTENDS Integers, Sequences, FiniteSets, TLC

(***************************************************************************)
(* Bounds of the model.                                                    *)
(***************************************************************************)
MaxJobs == 1
MaxChunks == 1
MaxProcs == 2
MaxCalls == 2

JobIds == 1..MaxJobs

(***************************************************************************)
(* RetryPolicy(maximum_attempts=...) of each execute_activity call.        *)
(***************************************************************************)
DownloadMaxAttempts == 3
TranscribeMaxAttempts == 3
ChunkMaxAttempts == 2
AssignTopicsMaxAttempts == 2
EmbedMaxAttempts == 3

\* The dimension of the vectors of all-MiniLM-L6-v2 and of the column
\* TranscriptionChunk.embedding.
\* settings.ollama_max_retries
ollama_max_retries == 3

\* sanitize_filename(filename, max_length=200)
DefaultMaxLength == 200

EmbeddingDimension == 384
VectorDimension == 384

VARIABLES
    \* ---- Part I: jobs, transcriptions, workflow runs -------------------
    job_status,       \* Job.status            ("absent" = no row yet)
    job_error,        \* persisted error text of the Job row ("" = none)
    job_audio_set,    \* TRUE once Job.audio_file_id has been written
    t_status,         \* Transcription.status  ("absent" = no row)
    t_error,          \* Transcription.error_message is set
    t_chunks,         \* number of TranscriptionChunk rows of the transcription
    t_embedded,       \* the TranscriptionChunk rows carry embeddings
    t_topics,         \* the transcription has TranscriptionTopic rows
    job_chunks,       \* number of JobChunk rows written for the job id
    wf_kind,          \* which workflow the endpoint started for the job
    wf,               \* state of the workflow run
    act,              \* activity the workflow is executing
    attempt,          \* Temporal attempt number of that activity
    pc,               \* position inside the running activity attempt
    \* ---- Part II: content store ---------------------------------------
    audio_files,      \* committed AudioFile rows
    next_id,          \* next primary key of audio_files
    disk,             \* the filesystem: path -> bytes, for the paths that exist
    transcription_rows, \* committed Transcription rows (audio_file_id column)
    job_rows,         \* committed Job rows (file_path, audio_file_id columns)
    procs,            \* the service calls in flight, one per caller
    calls,            \* number of service calls started so far
    \* ---- Part III: the chunk activity --------------------------------
    transcript,       \* the transcript the activity chunks (a string)
    segments,         \* the texts of the Whisper segments
    settings,         \* enable_semantic_chunking, chunk_max_tokens, chunk_overlap_tokens
    job_chunk_rows,   \* the committed chunk rows of the job, in insertion order
    chunking_result,  \* ChunkingResult of the last attempt that returned
    chunk_attempt,    \* Temporal attempt number of the chunk activity
    chunk_state,      \* "running", "returned" or "failed"
    chunk_commits,    \* transactions committed by _save_chunks_to_db
    llm_response,     \* the LLM's answer, where one answer is followed through
    \* ---- Part IV: the rows the pipeline's activities write -----------
    pipe,                     \* the activity the workflow is at, and its attempt
    transcription_transcript, \* Transcription.transcript: <<set, text>>
    transcription_chunks,     \* the TranscriptionChunk rows of the transcription
    transcription_topics,     \* topic ids of its TranscriptionTopic rows
    \* ---- Part V: the Topic table -------------------------------------
    topics,           \* Topic rows by id: name and parent_id, or NoTopic
    next_topic_id,    \* the next value of the id sequence
    topic_calls,      \* update_topic calls between their checks and their commit
    reset_pending,    \* reset_topics has deleted the topics and not yet seeded
    assign,           \* the assign_topics_activity racing with the admins
    topic_links,      \* topic ids of the TranscriptionTopic rows it wrote
    \* ---- Part VI: search ---------------------------------------------
    search_rows,      \* job_chunks rows joined with their jobs
    search_result,    \* the answer of the POST /search made, if any
    \* ---- Part VII: progress events -----------------------------------
    active_connections, \* the connection registered for the job_id, or none
    sockets,          \* per connection: none, open, disconnected, closed
    send,             \* the send_job_update call of the producer
    \* ---- Part VIII: the LLM chat call --------------------------------
    llm_call,         \* the outcomes of the attempts made, and how it ended
    \* ---- Part IX: file names -----------------------------------------
    filename,         \* the file name given to sanitize_filename
    sanitized,        \* what it returned: name part and extension
    \* ---- Part X: the progress events of one job ----------------------
    tr,               \* position of the run, updates made, its first event
    bar,              \* WhisperProgressBar._current
    ready,            \* the update_progress tasks created and not yet run
    last_progress,    \* ProgressCallback.last_progress
    bus,              \* the events sent for the job_id, in order
    stamp,            \* number of the next event produced
    act_log,          \* the finished attempts and the events each sent
    \* ---- Part XI: the download activity ------------------------------
    dl,               \* position of the activity, state of its heartbeat task
    progress_queue    \* the queue the progress hook fills

jobVars == <<job_status, job_error, job_audio_set, t_status, t_error, t_chunks,
             t_embedded, t_topics, job_chunks, wf_kind, wf, act, attempt, pc>>

storeVars == <<audio_files, next_id, disk, transcription_rows, job_rows, procs,
               calls>>

chunkVars == <<transcript, segments, settings, job_chunk_rows, chunking_result,
               chunk_attempt, chunk_state, chunk_commits, llm_response>>

pipeVars == <<pipe, transcription_transcript, transcription_chunks,
              transcription_topics>>

topicVars == <<topics, next_topic_id, topic_calls, reset_pending, assign, topic_links>>

searchVars == <<search_rows, search_result, active_connections, sockets, send>>

llmVars == <<llm_call>>
nameVars == <<filename, sanitized>>
progressVars == <<tr, bar, ready, last_progress, bus, stamp, act_log>>
dlVars == <<dl, progress_queue>>
lateVars == <<llmVars, nameVars, progressVars, dlVars>>

vars == <<jobVars, storeVars, chunkVars, pipeVars, topicVars, searchVars, lateVars>>

otherThanJobs == <<storeVars, chunkVars, pipeVars, topicVars, searchVars, lateVars>>
otherThanStore == <<jobVars, chunkVars, pipeVars, topicVars, searchVars, lateVars>>
otherThanChunks == <<jobVars, storeVars, pipeVars, topicVars, searchVars, lateVars>>
otherThanPipe == <<jobVars, storeVars, topicVars, searchVars, lateVars>>
otherThanSearch == <<jobVars, storeVars, chunkVars, pipeVars, topicVars, lateVars>>
earlyVars == <<jobVars, storeVars, chunkVars, pipeVars, topicVars, searchVars>>
otherThanLLM == <<earlyVars, nameVars, progressVars, dlVars>>
otherThanNames == <<earlyVars, llmVars, progressVars, dlVars>>
otherThanProgress == <<earlyVars, llmVars, nameVars>>
otherThanTopics == <<jobVars, storeVars, chunkVars, pipeVars, searchVars, lateVars>>

Terminal == {"completed", "failed"}

(***************************************************************************)
(* Temporal's retry of a failed activity attempt: the attempt is repeated  *)
(* until maximum_attempts is reached, then the workflow run fails (the     *)
(* workflows' except blocks only log and re-raise).                        *)
(***************************************************************************)
\* A retry policy that allows one attempt more than any configured one
\* (fault injected into MaximumAttempts).
MaximumAttemptsOneMore(a) == EmbedMaxAttempts + 1

MaximumAttempts(a) ==
    CASE a = "download"      -> DownloadMaxAttempts
      [] a = "transcribe"    -> TranscribeMaxAttempts
      [] a = "chunk"         -> ChunkMaxAttempts
      [] a = "assign_topics" -> AssignTopicsMaxAttempts
      [] a = "embed"         -> EmbedMaxAttempts

ActivityRaised(j) ==
    IF attempt[j] < MaximumAttempts(act[j])
    THEN /\ attempt' = [attempt EXCEPT ![j] = @ + 1]
         /\ pc' = [pc EXCEPT ![j] = "begin"]
         /\ UNCHANGED <<wf, act>>
    ELSE /\ wf' = [wf EXCEPT ![j] = "failed"]
         /\ pc' = [pc EXCEPT ![j] = "end"]
         /\ UNCHANGED <<attempt, act>>

\* A driver that goes straight to the last activity (fault injected into
\* ActivityReturned).
ActivityReturnedSkips(j, next) ==
    /\ act' = [act EXCEPT ![j] = "embed"]
    /\ attempt' = [attempt EXCEPT ![j] = 1]
    /\ pc' = [pc EXCEPT ![j] = "begin"]
    /\ UNCHANGED wf

ActivityReturned(j, next) ==
    /\ act' = [act EXCEPT ![j] = next]
    /\ attempt' = [attempt EXCEPT ![j] = 1]
    /\ pc' = [pc EXCEPT ![j] = "begin"]
    /\ UNCHANGED wf

WorkflowReturned(j) ==
    /\ wf' = [wf EXCEPT ![j] = "succeeded"]
    /\ pc' = [pc EXCEPT ![j] = "end"]
    /\ UNCHANGED <<act, attempt>>

Running(j, a, p) == wf[j] = "running" /\ act[j] = a /\ pc[j] = p

\* The attempt is in its except block: "except_input" when the exception
\* reports an input error, "except" for any other exception.  The blocks and
\* the retry policies make no difference between the two.
Raised(j, a) == Running(j, a, "except") \/ Running(j, a, "except_input")

(***************************************************************************)
(* API endpoints that create a Job and start a workflow.                   *)
(***************************************************************************)
\* POST /transcriptions/{audio_file_id}/transcribe: Job and Transcription
\* rows are committed as pending before the workflow is started.
create_transcription(j) ==
    /\ wf[j] = "none"
    /\ job_status' = [job_status EXCEPT ![j] = "pending"]
    /\ t_status' = [t_status EXCEPT ![j] = "pending"]
    /\ wf_kind' = [wf_kind EXCEPT ![j] = "transcription"]
    /\ wf' = [wf EXCEPT ![j] = "starting"]
    /\ UNCHANGED <<job_error, job_audio_set, t_error, t_chunks, t_embedded, t_topics,
                   job_chunks, act, attempt, pc>>
    /\ UNCHANGED otherThanJobs

\* client.start_workflow(TranscribeWorkflow.run, ...) succeeded.
create_transcription_started(j) ==
    /\ wf[j] = "starting" /\ wf_kind[j] = "transcription"
    /\ wf' = [wf EXCEPT ![j] = "running"]
    /\ act' = [act EXCEPT ![j] = "transcribe"]
    /\ attempt' = [attempt EXCEPT ![j] = 1]
    /\ pc' = [pc EXCEPT ![j] = "begin"]
    /\ UNCHANGED <<job_status, job_error, job_audio_set, t_status, t_error,
                   t_chunks, t_embedded, t_topics, job_chunks, wf_kind>>
    /\ UNCHANGED otherThanJobs

\* client.start_workflow raised: the endpoint marks job and transcription
\* failed.  `job.error = ...` assigns an attribute the Job model does not
\* map, so no error text reaches the row.
create_transcription_start_failed(j) ==
    /\ wf[j] = "starting" /\ wf_kind[j] = "transcription"
    /\ job_status' = [job_status EXCEPT ![j] = "failed"]
    /\ t_status' = [t_status EXCEPT ![j] = "failed"]
    /\ t_error' = [t_error EXCEPT ![j] = TRUE]
    /\ wf' = [wf EXCEPT ![j] = "not_started"]
    /\ UNCHANGED <<job_error, job_audio_set, t_chunks, t_embedded, t_topics, job_chunks,
                   wf_kind, act, attempt, pc>>
    /\ UNCHANGED otherThanJobs

\* POST /audio/download
download_audio_from_url(j) ==
    /\ wf[j] = "none"
    /\ job_status' = [job_status EXCEPT ![j] = "pending"]
    /\ wf_kind' = [wf_kind EXCEPT ![j] = "download"]
    /\ wf' = [wf EXCEPT ![j] = "starting"]
    /\ UNCHANGED <<job_error, job_audio_set, t_status, t_error, t_chunks,
                   t_embedded, t_topics, job_chunks, act, attempt, pc>>
    /\ UNCHANGED otherThanJobs

download_audio_from_url_started(j) ==
    /\ wf[j] = "starting" /\ wf_kind[j] = "download"
    /\ wf' = [wf EXCEPT ![j] = "running"]
    /\ act' = [act EXCEPT ![j] = "download"]
    /\ attempt' = [attempt EXCEPT ![j] = 1]
    /\ pc' = [pc EXCEPT ![j] = "begin"]
    /\ UNCHANGED <<job_status, job_error, job_audio_set, t_status, t_error,
                   t_chunks, t_embedded, t_topics, job_chunks, wf_kind>>
    /\ UNCHANGED otherThanJobs

download_audio_from_url_start_failed(j) ==
    /\ wf[j] = "starting" /\ wf_kind[j] = "download"
    /\ job_status' = [job_status EXCEPT ![j] = "failed"]
    /\ wf' = [wf EXCEPT ![j] = "not_started"]
    /\ UNCHANGED <<job_error, job_audio_set, t_status, t_error, t_chunks,
                   t_embedded, t_topics, job_chunks, wf_kind, act, attempt, pc>>
    /\ UNCHANGED otherThanJobs

(***************************************************************************)
(* download_audio_activity                                                 *)
(***************************************************************************)
\* lines 65-70: the job is marked processing before the try block.
download_audio_activity_begin(j) ==
    /\ Running(j, "download", "begin")
    /\ job_status' = [job_status EXCEPT ![j] = "processing"]
    /\ pc' = [pc EXCEPT ![j] = "run"]
    /\ UNCHANGED <<job_error, job_audio_set, t_status, t_error, t_chunks,
                   t_embedded, t_topics, job_chunks, wf_kind, wf, act, attempt>>
    /\ UNCHANGED otherThanJobs

\* lines 114-167: download, ingest, then job.audio_file_id and
\* status=completed in one commit; the workflow returns.
download_audio_activity_ok(j) ==
    /\ Running(j, "download", "run")
    /\ job_status' = [job_status EXCEPT ![j] = "completed"]
    /\ job_audio_set' = [job_audio_set EXCEPT ![j] = TRUE]
    /\ WorkflowReturned(j)
    /\ UNCHANGED <<job_error, t_status, t_error, t_chunks, t_embedded, t_topics,
                   job_chunks, wf_kind>>
    /\ UNCHANGED otherThanJobs

\* DownloadService.download_audio or create_from_download raised.
download_audio_activity_raise(j) ==
    /\ Running(j, "download", "run")
    /\ pc' = [pc EXCEPT ![j] = "except"]
    /\ UNCHANGED <<job_status, job_error, job_audio_set, t_status, t_error,
                   t_chunks, t_embedded, t_topics, job_chunks, wf_kind, wf, act, attempt>>
    /\ UNCHANGED otherThanJobs

\* DownloadService.download_audio raised ValueError("Invalid URL: ...") or
\* yt-dlp rejected the URL as unsupported: an input error.
download_audio_activity_invalid_url(j) ==
    /\ Running(j, "download", "run")
    /\ pc' = [pc EXCEPT ![j] = "except_input"]
    /\ UNCHANGED <<job_status, job_error, job_audio_set, t_status, t_error,
                   t_chunks, t_embedded, t_topics, job_chunks, wf_kind, wf, act, attempt>>
    /\ UNCHANGED otherThanJobs

\* lines 169-183: except block: status=failed, commit, re-raise.
download_audio_activity_except(j) ==
    /\ Raised(j, "download")
    /\ job_status' = [job_status EXCEPT ![j] = "failed"]
    /\ ActivityRaised(j)
    /\ UNCHANGED <<job_error, job_audio_set, t_status, t_error, t_chunks,
                   t_embedded, t_topics, job_chunks, wf_kind>>
    /\ UNCHANGED otherThanJobs

(***************************************************************************)
(* transcribe_activity                                                     *)
(***************************************************************************)
\* lines 56-71: load the Transcription (ValueError when the id is unknown:
\* an input error, pc "except_input"), then job.status = "processing" and
\* commit.
transcribe_activity_begin(j) ==
    /\ Running(j, "transcribe", "begin")
    /\ IF t_status[j] = "absent"
       THEN /\ pc' = [pc EXCEPT ![j] = "except_input"]
            /\ UNCHANGED job_status
       ELSE /\ job_status' = [job_status EXCEPT ![j] = "processing"]
            /\ pc' = [pc EXCEPT ![j] = "mark"]
    /\ UNCHANGED <<job_error, job_audio_set, t_status, t_error, t_chunks,
                   t_embedded, t_topics, job_chunks, wf_kind, wf, act, attempt>>
    /\ UNCHANGED otherThanJobs

\* lines 73-75: transcription.status = "processing" and commit (the commit
\* raises when the row has been deleted meanwhile).
transcribe_activity_mark(j) ==
    /\ Running(j, "transcribe", "mark")
    /\ IF t_status[j] = "absent"
       THEN /\ pc' = [pc EXCEPT ![j] = "except"]
            /\ UNCHANGED t_status
       ELSE /\ t_status' = [t_status EXCEPT ![j] = "processing"]
            /\ pc' = [pc EXCEPT ![j] = "run"]
    /\ UNCHANGED <<job_status, job_error, job_audio_set, t_error, t_chunks,
                   t_embedded, t_topics, job_chunks, wf_kind, wf, act, attempt>>
    /\ UNCHANGED otherThanJobs

\* lines 85-136: Whisper ran, update_transcription_result committed the
\* Transcription as completed, the activity returns.
transcribe_activity_ok(j) ==
    /\ Running(j, "transcribe", "run")
    /\ t_status[j] # "absent"
    /\ t_status' = [t_status EXCEPT ![j] = "completed"]
    /\ ActivityReturned(j, "chunk")
    /\ UNCHANGED <<job_status, job_error, job_audio_set, t_error, t_chunks,
                   t_embedded, t_topics, job_chunks, wf_kind>>
    /\ UNCHANGED otherThanJobs

\* transcribe_audio raised, or update_transcription_result did.
transcribe_activity_raise(j) ==
    /\ Running(j, "transcribe", "run")
    /\ pc' = [pc EXCEPT ![j] = "except"]
    /\ UNCHANGED <<job_status, job_error, job_audio_set, t_status, t_error,
                   t_chunks, t_embedded, t_topics, job_chunks, wf_kind, wf, act,
                   attempt>>
    /\ UNCHANGED otherThanJobs

\* lines 138-159: except block.  mark_as_failed raises ValueError when the
\* Transcription is gone, and then the Job row is not reached.
transcribe_activity_except(j) ==
    /\ Raised(j, "transcribe")
    /\ IF t_status[j] = "absent"
       THEN UNCHANGED <<t_status, t_error, job_status>>
       ELSE /\ t_status' = [t_status EXCEPT ![j] = "failed"]
            /\ t_error' = [t_error EXCEPT ![j] = TRUE]
            /\ job_status' = [job_status EXCEPT ![j] = "failed"]
    /\ ActivityRaised(j)
    /\ UNCHANGED <<job_error, job_audio_set, t_chunks, t_embedded, t_topics,
                   job_chunks, wf_kind>>
    /\ UNCHANGED otherThanJobs

(***************************************************************************)
(* chunk_with_ollama_activity: writes JobChunk rows keyed by the job id;   *)
(* it never writes the Job row, neither on success nor in its except block.*)
(***************************************************************************)
chunk_with_ollama_activity_ok(j, n) ==
    /\ Running(j, "chunk", "begin")
    /\ job_chunks' = [job_chunks EXCEPT ![j] = n]
    /\ ActivityReturned(j, "assign_topics")
    /\ UNCHANGED <<job_status, job_error, job_audio_set, t_status, t_error,
                   t_chunks, t_embedded, t_topics, wf_kind>>
    /\ UNCHANGED otherThanJobs

\* lines 114-123: log, heartbeat, re-raise.
chunk_with_ollama_activity_raise(j) ==
    /\ Running(j, "chunk", "begin")
    /\ ActivityRaised(j)
    /\ UNCHANGED <<job_status, job_error, job_audio_set, t_status, t_error,
                   t_chunks, t_embedded, t_topics, job_chunks, wf_kind>>
    /\ UNCHANGED otherThanJobs

(***************************************************************************)
(* assign_topics_activity                                                  *)
(***************************************************************************)
assign_topics_activity_ok(j) ==
    /\ Running(j, "assign_topics", "begin")
    /\ t_status[j] # "absent"
    /\ t_topics' = [t_topics EXCEPT ![j] = TRUE]
    /\ ActivityReturned(j, "embed")
    /\ UNCHANGED <<job_status, job_error, job_audio_set, t_status, t_error,
                   t_chunks, t_embedded, job_chunks, wf_kind>>
    /\ UNCHANGED otherThanJobs

\* lines 93-99: log and re-raise.
assign_topics_activity_raise(j) ==
    /\ Running(j, "assign_topics", "begin")
    /\ ActivityRaised(j)
    /\ UNCHANGED <<job_status, job_error, job_audio_set, t_status, t_error,
                   t_chunks, t_embedded, t_topics, job_chunks, wf_kind>>
    /\ UNCHANGED otherThanJobs

(***************************************************************************)
(* embed_chunks_activity                                                   *)
(***************************************************************************)
\* lines 56-71: no TranscriptionChunk rows: return success at once.
embed_chunks_activity_no_chunks(j) ==
    /\ Running(j, "embed", "begin")
    /\ t_chunks[j] = 0
    /\ WorkflowReturned(j)
    /\ UNCHANGED <<job_status, job_error, job_audio_set, t_status, t_error,
                   t_chunks, t_embedded, t_topics, job_chunks, wf_kind>>
    /\ UNCHANGED otherThanJobs

\* (fault injected into embed_chunks_activity_store: no embedding is stored)
embed_chunks_activity_store_nothing(j) ==
    /\ Running(j, "embed", "begin")
    /\ t_chunks[j] > 0
    /\ pc' = [pc EXCEPT ![j] = "complete"]
    /\ UNCHANGED <<job_status, job_error, job_audio_set, t_status, t_error,
                   t_chunks, t_embedded, t_topics, job_chunks, wf_kind, wf, act, attempt>>
    /\ UNCHANGED otherThanJobs

\* lines 79-96: embeddings generated and committed.
embed_chunks_activity_store(j) ==
    /\ Running(j, "embed", "begin")
    /\ t_chunks[j] > 0
    /\ t_embedded' = [t_embedded EXCEPT ![j] = TRUE]
    /\ pc' = [pc EXCEPT ![j] = "complete"]
    /\ UNCHANGED <<job_status, job_error, job_audio_set, t_status, t_error,
                   t_chunks, t_topics, job_chunks, wf_kind, wf, act, attempt>>
    /\ UNCHANGED otherThanJobs

\* generate_embeddings_batch or the commit raised.
embed_chunks_activity_raise(j) ==
    /\ Running(j, "embed", "begin")
    /\ t_chunks[j] > 0
    /\ pc' = [pc EXCEPT ![j] = "except"]
    /\ UNCHANGED <<job_status, job_error, job_audio_set, t_status, t_error,
                   t_chunks, t_embedded, t_topics, job_chunks, wf_kind, wf, act,
                   attempt>>
    /\ UNCHANGED otherThanJobs

\* lines 103-114: job.status = "completed", commit, return.
embed_chunks_activity_complete(j) ==
    /\ Running(j, "embed", "complete")
    /\ job_status' = [job_status EXCEPT ![j] = "completed"]
    /\ WorkflowReturned(j)
    /\ UNCHANGED <<job_error, job_audio_set, t_status, t_error, t_chunks,
                   t_embedded, t_topics, job_chunks, wf_kind>>
    /\ UNCHANGED otherThanJobs

\* lines 116-130: except block: job.status = "failed", commit, re-raise.
embed_chunks_activity_except(j) ==
    /\ Running(j, "embed", "except")
    /\ job_status' = [job_status EXCEPT ![j] = "failed"]
    /\ ActivityRaised(j)
    /\ UNCHANGED <<job_error, job_audio_set, t_status, t_error, t_chunks,
                   t_embedded, t_topics, job_chunks, wf_kind>>
    /\ UNCHANGED otherThanJobs

(***************************************************************************)
(* Service operations on the transcription that run beside the workflow.   *)
(***************************************************************************)
\* TranscriptionService.create_chunks: the writer of TranscriptionChunk rows.
create_chunks(j, n) ==
    /\ t_status[j] # "absent"
    /\ t_chunks[j] = 0
    /\ t_chunks' = [t_chunks EXCEPT ![j] = n]
    /\ UNCHANGED <<job_status, job_error, job_audio_set, t_status, t_error,
                   t_embedded, t_topics, job_chunks, wf_kind, wf, act, attempt,
                   pc>>
    /\ UNCHANGED otherThanJobs

\* DELETE /transcriptions/{id}: the row goes, chunks and topic links cascade.
delete_transcription(j) ==
    /\ t_status[j] # "absent"
    /\ t_status' = [t_status EXCEPT ![j] = "absent"]
    /\ t_error' = [t_error EXCEPT ![j] = FALSE]
    /\ t_chunks' = [t_chunks EXCEPT ![j] = 0]
    /\ t_embedded' = [t_embedded EXCEPT ![j] = FALSE]
    /\ t_topics' = [t_topics EXCEPT ![j] = FALSE]
    /\ UNCHANGED <<job_status, job_error, job_audio_set, job_chunks, wf_kind,
                   wf, act, attempt, pc>>
    /\ UNCHANGED otherThanJobs

(***************************************************************************)
(* Part I: initial rows and next-state relation.                           *)
(***************************************************************************)
InitJobRows ==
    /\ job_status = [j \in JobIds |-> "absent"]
    /\ job_error = [j \in JobIds |-> ""]
    /\ job_audio_set = [j \in JobIds |-> FALSE]
    /\ t_status = [j \in JobIds |-> "absent"]
    /\ t_error = [j \in JobIds |-> FALSE]
    /\ t_chunks = [j \in JobIds |-> 0]
    /\ t_embedded = [j \in JobIds |-> FALSE]
    /\ t_topics = [j \in JobIds |-> FALSE]
    /\ job_chunks = [j \in JobIds |-> 0]
    /\ wf_kind = [j \in JobIds |-> "none"]
    /\ wf = [j \in JobIds |-> "none"]
    /\ act = [j \in JobIds |-> "none"]
    /\ attempt = [j \in JobIds |-> 0]
    /\ pc = [j \in JobIds |-> "end"]

NextJobs ==
    \/ \E j \in JobIds : create_transcription(j)
    \/ \E j \in JobIds : create_transcription_started(j)
    \/ \E j \in JobIds : create_transcription_start_failed(j)
    \/ \E j \in JobIds : download_audio_from_url(j)
    \/ \E j \in JobIds : download_audio_from_url_started(j)
    \/ \E j \in JobIds : download_audio_from_url_start_failed(j)
    \/ \E j \in JobIds : download_audio_activity_begin(j)
    \/ \E j \in JobIds : download_audio_activity_ok(j)
    \/ \E j \in JobIds : download_audio_activity_raise(j)
    \/ \E j \in JobIds : download_audio_activity_invalid_url(j)
    \/ \E j \in JobIds : download_audio_activity_except(j)
    \/ \E j \in JobIds : transcribe_activity_begin(j)
    \/ \E j \in JobIds : transcribe_activity_mark(j)
    \/ \E j \in JobIds : transcribe_activity_ok(j)
    \/ \E j \in JobIds : transcribe_activity_raise(j)
    \/ \E j \in JobIds : transcribe_activity_except(j)
    \/ \E j \in JobIds, n \in 0..MaxChunks : chunk_with_ollama_activity_ok(j, n)
    \/ \E j \in JobIds : chunk_with_ollama_activity_raise(j)
    \/ \E j \in JobIds : assign_topics_activity_ok(j)
    \/ \E j \in JobIds : assign_topics_activity_raise(j)
    \/ \E j \in JobIds : embed_chunks_activity_no_chunks(j)
    \/ \E j \in JobIds : embed_chunks_activity_store(j)
    \/ \E j \in JobIds : embed_chunks_activity_raise(j)
    \/ \E j \in JobIds : embed_chunks_activity_complete(j)
    \/ \E j \in JobIds : embed_chunks_activity_except(j)
    \/ \E j \in JobIds, n \in 1..MaxChunks : create_chunks(j, n)
    \/ \E j \in JobIds : delete_transcription(j)

(***************************************************************************)
(* Part II: the content store (AudioFileService).                          *)
(***************************************************************************)
Users == {"u1", "u2"}
Names == {"x", "y"}           \* sanitized file names / video ids
Bytes == {"b1", "b2"}         \* file contents
Procs == 1..MaxProcs
AudioIds == 1..MaxCalls
NoId == 0
NoPath == <<>>

\* calculate_checksum: SHA-256 of the bytes read from the file (taken to be
\* collision free).
calculate_checksum(b) == <<"sha256", b>>

\* temp_{user_id}_{filename} under uploads/temp for an upload,
\* download_{user_id}_{video_id}.mp3 for a download.
StagedPath(kind, u, f) == <<"temp", kind, u, f>>

\* generate_file_path: uploads/user_{id}/YYYY/MM/{checksum[:16]}_{name}.
generate_file_path(u, f, c) == <<"uploads", u, c, f>>

IsStorePath(path) == path[1] = "uploads"

\* Filesystem primitives.
Exists(path) == path \in DOMAIN disk
WriteFile(d, path, b) == [x \in DOMAIN d \cup {path} |-> IF x = path THEN b ELSE d[x]]
RemoveFile(d, path) == [x \in DOMAIN d \ {path} |-> d[x]]
MoveFile(d, src, dst) == [x \in (DOMAIN d \ {src}) \cup {dst} |-> IF x = dst THEN d[src] ELSE d[x]]

\* A duplicate lookup that finds nothing (fault injected into check_duplicate).
check_duplicate_finds_nothing(rows, u, c) == {}

\* check_duplicate: the rows of this user with this checksum.
check_duplicate(rows, u, c) == {r \in rows : r.user_id = u /\ r.checksum = c}

\* A table without the unique constraint (fault injected into uq_user_checksum).
uq_user_checksum_missing(rows, u, c) == TRUE

\* UniqueConstraint('user_id', 'checksum', name='uq_user_checksum'): may a
\* row with these values be inserted?
uq_user_checksum(rows, u, c) == \A r \in rows : ~(r.user_id = u /\ r.checksum = c)

IdleProc == [pc |-> "idle", op |-> "none", user |-> "none", name |-> "none",
             bytes |-> "none", checksum |-> <<>>, target |-> NoId,
             result |-> "none", id |-> NoId, is_duplicate |-> FALSE]

\* A new call takes the first free slot (the slots are interchangeable).
Free(p) ==
    /\ procs[p].pc \in {"idle", "done"}
    /\ \A q \in Procs : q < p => procs[q].pc \notin {"idle", "done"}

Staged(p) == StagedPath(procs[p].op, procs[p].user, procs[p].name)
Final(p) == generate_file_path(procs[p].user, procs[p].name, procs[p].checksum)

Return(p, res, id, dup) ==
    [procs EXCEPT ![p] = [IdleProc EXCEPT !.pc = "done", !.result = res, !.id = id,
                                          !.is_duplicate = dup]]

\* except block of create_from_upload: remove the temp file if it is there,
\* then re-raise.  create_from_download has no such block.
CleanupOnError(p) ==
    IF procs[p].op = "upload" /\ Exists(Staged(p))
    THEN RemoveFile(disk, Staged(p))
    ELSE disk

\* A call starts: the bytes are written to the staging path.
IngestBegin(p, kind, u, f, b) ==
    /\ Free(p)
    /\ calls < MaxCalls
    /\ calls' = calls + 1
    /\ procs' = [procs EXCEPT ![p] = [IdleProc EXCEPT !.pc = "staged", !.op = kind,
                                      !.user = u, !.name = f, !.bytes = b]]
    /\ disk' = WriteFile(disk, StagedPath(kind, u, f), b)
    /\ UNCHANGED <<audio_files, next_id, transcription_rows, job_rows>>
    /\ UNCHANGED otherThanStore

\* calculate_checksum and check_duplicate; a duplicate removes the staged
\* file and returns the existing row.
IngestCheck(p) ==
    /\ procs[p].pc = "staged"
    /\ IF ~Exists(Staged(p))
       THEN /\ procs' = Return(p, "FileNotFoundError", NoId, FALSE)
            /\ UNCHANGED disk
       ELSE LET c == calculate_checksum(disk[Staged(p)])
                existing == check_duplicate(audio_files, procs[p].user, c)
            IN  IF existing # {}
                THEN /\ \E r \in existing : procs' = Return(p, "ok", r.id, TRUE)
                     /\ disk' = RemoveFile(disk, Staged(p))
                ELSE /\ procs' = [procs EXCEPT ![p].pc = "checked", ![p].checksum = c]
                     /\ UNCHANGED disk
    /\ UNCHANGED <<audio_files, next_id, transcription_rows, job_rows, calls>>
    /\ UNCHANGED otherThanStore

\* ensure_directory_exists and shutil.move(staged, final_path).
IngestMove(p) ==
    /\ procs[p].pc = "checked"
    /\ IF ~Exists(Staged(p))
       THEN /\ procs' = Return(p, "FileNotFoundError", NoId, FALSE)
            /\ UNCHANGED disk
       ELSE /\ procs' = [procs EXCEPT ![p].pc = "moved"]
            /\ disk' = MoveFile(disk, Staged(p), Final(p))
    /\ UNCHANGED <<audio_files, next_id, transcription_rows, job_rows, calls>>
    /\ UNCHANGED otherThanStore

\* db.add(audio_file); await db.commit(): the insert is subject to
\* uq_user_checksum; an IntegrityError propagates to the caller.
IngestCommit(p) ==
    /\ procs[p].pc = "moved"
    /\ IF uq_user_checksum(audio_files, procs[p].user, procs[p].checksum)
       THEN /\ audio_files' = audio_files \cup
                 {[id |-> next_id, user_id |-> procs[p].user,
                   checksum |-> procs[p].checksum, file_path |-> Final(p),
                   source_type |-> procs[p].op]}
            /\ next_id' = next_id + 1
            /\ procs' = Return(p, "ok", next_id, FALSE)
            /\ UNCHANGED disk
       ELSE /\ procs' = Return(p, "IntegrityError", NoId, FALSE)
            /\ disk' = CleanupOnError(p)
            /\ UNCHANGED <<audio_files, next_id>>
    /\ UNCHANGED <<transcription_rows, calls>>

\* The commit fails for a reason of the database (connection lost).
IngestCommitFails(p) ==
    /\ procs[p].pc = "moved"
    /\ procs' = Return(p, "DBError", NoId, FALSE)
    /\ disk' = CleanupOnError(p)
    /\ UNCHANGED <<audio_files, next_id, transcription_rows, job_rows, calls>>
    /\ UNCHANGED otherThanStore

\* ---- create_from_upload --------------------------------------------------
create_from_upload_begin(p, u, f, b) == IngestBegin(p, "upload", u, f, b)

create_from_upload_check(p) == procs[p].op = "upload" /\ IngestCheck(p)

create_from_upload_move(p) == procs[p].op = "upload" /\ IngestMove(p)

create_from_upload_commit(p) ==
    /\ procs[p].op = "upload"
    /\ IngestCommit(p)
    /\ UNCHANGED job_rows
    /\ UNCHANGED otherThanStore

create_from_upload_commit_fails(p) == procs[p].op = "upload" /\ IngestCommitFails(p)

\* ---- download_audio_activity: download_audio, then create_from_download --
create_from_download_begin(p, u, f, b) == IngestBegin(p, "download", u, f, b)

\* On return the activity writes job.audio_file_id (file_path stays "").
create_from_download_check(p) ==
    /\ procs[p].op = "download"
    /\ IngestCheck(p)

create_from_download_move(p) == procs[p].op = "download" /\ IngestMove(p)

create_from_download_commit(p) ==
    /\ procs[p].op = "download"
    /\ IngestCommit(p)
    /\ job_rows' = IF procs'[p].result = "ok"
                   THEN job_rows \cup {[file_path |-> NoPath, audio_file_id |-> procs'[p].id]}
                   ELSE job_rows
    /\ UNCHANGED otherThanStore

create_from_download_commit_fails(p) == procs[p].op = "download" /\ IngestCommitFails(p)

\* ---- create_transcription (the rows that refer to the audio file) --------
\* Job(file_path=audio_file.file_path) and Transcription(audio_file_id=...).
create_transcription_rows(u, a) ==
    /\ \E r \in audio_files :
          /\ r.id = a /\ r.user_id = u
          /\ job_rows' = job_rows \cup {[file_path |-> r.file_path, audio_file_id |-> NoId]}
    /\ transcription_rows' = transcription_rows \cup {[audio_file_id |-> a]}
    /\ UNCHANGED <<audio_files, next_id, disk, procs, calls>>
    /\ UNCHANGED otherThanStore

\* ---- delete_file ---------------------------------------------------------
\* get_by_id, the permission check, and os.remove of the file when it
\* exists (lines 462-477).  unlink_ok = FALSE: os.remove raised, which the
\* code swallows.
delete_file_begin(p, a, u, unlink_ok) ==
    /\ Free(p)
    /\ calls < MaxCalls
    /\ calls' = calls + 1
    /\ LET found == {r \in audio_files : r.id = a}
           started == [IdleProc EXCEPT !.op = "delete", !.user = u, !.target = a]
       IN  IF found = {} \/ (\E r \in found : r.user_id # u)
           THEN /\ procs' = [procs EXCEPT ![p] = [started EXCEPT !.pc = "done",
                                                   !.result = "False"]]
                /\ UNCHANGED disk
           ELSE /\ procs' = [procs EXCEPT ![p] = [started EXCEPT !.pc = "unlinked"]]
                /\ \E r \in found :
                      disk' = IF Exists(r.file_path) /\ unlink_ok
                              THEN RemoveFile(disk, r.file_path)
                              ELSE disk
    /\ UNCHANGED <<audio_files, next_id, transcription_rows, job_rows>>
    /\ UNCHANGED otherThanStore

\* db.delete(audio_file); commit (lines 479-483).  Transcriptions cascade,
\* Job.audio_file_id is SET NULL, Job.file_path is not touched.
delete_file_commit(p) ==
    /\ procs[p].pc = "unlinked"
    /\ LET a == procs[p].target IN
       IF \E r \in audio_files : r.id = a
       THEN /\ audio_files' = {r \in audio_files : r.id # a}
            /\ transcription_rows' = {t \in transcription_rows : t.audio_file_id # a}
            /\ job_rows' = {IF jr.audio_file_id = a
                            THEN [jr EXCEPT !.audio_file_id = NoId] ELSE jr
                            : jr \in job_rows}
            /\ procs' = Return(p, "True", a, FALSE)
       ELSE /\ procs' = Return(p, "StaleDataError", NoId, FALSE)
            /\ UNCHANGED <<audio_files, transcription_rows, job_rows>>
    /\ UNCHANGED <<next_id, disk, calls>>
    /\ UNCHANGED otherThanStore

\* The commit of the delete fails for a reason of the database.
delete_file_commit_fails(p) ==
    /\ procs[p].pc = "unlinked"
    /\ procs' = Return(p, "DBError", NoId, FALSE)
    /\ UNCHANGED <<audio_files, next_id, disk, transcription_rows, job_rows, calls>>
    /\ UNCHANGED otherThanStore

InitStoreRows ==
    /\ audio_files = {}
    /\ next_id = 1
    /\ disk = <<>>
    /\ transcription_rows = {}
    /\ job_rows = {}
    /\ procs = [p \in Procs |-> IdleProc]
    /\ calls = 0

NextStore ==
    \/ \E p \in Procs, u \in Users, f \in Names, b \in Bytes : create_from_upload_begin(p, u, f, b)
    \/ \E p \in Procs : create_from_upload_check(p)
    \/ \E p \in Procs : create_from_upload_move(p)
    \/ \E p \in Procs : create_from_upload_commit(p)
    \/ \E p \in Procs : create_from_upload_commit_fails(p)
    \/ \E p \in Procs, u \in Users, f \in Names, b \in Bytes : create_from_download_begin(p, u, f, b)
    \/ \E p \in Procs : create_from_download_check(p)
    \/ \E p \in Procs : create_from_download_move(p)
    \/ \E p \in Procs : create_from_download_commit(p)
    \/ \E p \in Procs : create_from_download_commit_fails(p)
    \/ \E u \in Users, a \in AudioIds : create_transcription_rows(u, a)
    \/ \E p \in Procs, a \in AudioIds, u \in Users, ok \in BOOLEAN : delete_file_begin(p, a, u, ok)
    \/ \E p \in Procs : delete_file_commit(p)
    \/ \E p \in Procs : delete_file_commit_fails(p)

(***************************************************************************)
(* Part III: strings.  A string is a sequence of characters; the alphabet  *)
(* is a letter, a sentence terminator and a blank.                         *)
(***************************************************************************)
IsSpace(c) == c = " "
IsTerminator(c) == c \in {".", "!", "?"}

\* transcript[start:end] for 0 <= start, end (Python clamps end to len).
Slice(str, start, end) ==
    SubSeq(str, start + 1, IF end > Len(str) THEN Len(str) ELSE end)

\* str.strip()
RECURSIVE LStrip(_)
LStrip(str) ==
    IF str # <<>> /\ IsSpace(Head(str)) THEN LStrip(Tail(str)) ELSE str

RECURSIVE RStrip(_)
RStrip(str) ==
    IF str # <<>> /\ IsSpace(str[Len(str)])
    THEN RStrip(SubSeq(str, 1, Len(str) - 1)) ELSE str

Strip(str) == RStrip(LStrip(str))

\* " ".join(parts)
RECURSIVE Join(_)
Join(parts) ==
    IF parts = <<>> THEN <<>>
    ELSE IF Len(parts) = 1 THEN parts[1]
    ELSE parts[1] \o <<" ">> \o Join(Tail(parts))

\* index of the first non-blank character at or after i (Len + 1 if none)
RECURSIVE SkipSpaces(_, _)
SkipSpaces(str, i) ==
    IF i <= Len(str) /\ IsSpace(str[i]) THEN SkipSpaces(str, i + 1) ELSE i

\* re.split(r'(?<=[.!?])\s+', str): split at every run of blanks that
\* follows a terminator; cur is the sentence collected so far.
RECURSIVE SplitFrom(_, _, _)
SplitFrom(str, i, cur) ==
    IF i > Len(str) THEN <<cur>>
    ELSE IF IsSpace(str[i]) /\ i > 1 /\ IsTerminator(str[i - 1])
         THEN <<cur>> \o SplitFrom(str, SkipSpaces(str, i), <<>>)
         ELSE SplitFrom(str, i + 1, Append(cur, str[i]))

SplitSentences(str) == SplitFrom(str, 1, <<>>)

(***************************************************************************)
(* Part III: the chunkers.                                                 *)
(***************************************************************************)
\* ChunkMetadata (keywords, confidence and the timestamps are left out: no
\* position or index depends on them).
ChunkMetadata(idx, text, topic, start, end) ==
    [chunk_index |-> idx, text |-> text, topic_summary |-> topic,
     start_char_pos |-> start, end_char_pos |-> end]

\* target_size and overlap_size, in characters
TargetSize(cfg) == cfg.chunk_max_tokens * 4
OverlapSize(cfg) == cfg.chunk_overlap_tokens * 4

\* lines 487-495: the last sentences of the chunk, as long as they fit
RECURSIVE OverlapFrom(_, _, _, _, _)
OverlapFrom(current_chunk, i, overlap_sentences, overlap_length, size) ==
    IF i = 0 THEN overlap_sentences
    ELSE IF overlap_length + Len(current_chunk[i]) <= size
         THEN OverlapFrom(current_chunk, i - 1,
                          <<current_chunk[i]>> \o overlap_sentences,
                          overlap_length + Len(current_chunk[i]), size)
         ELSE overlap_sentences

RECURSIVE TotalLen(_)
TotalLen(parts) == IF parts = <<>> THEN 0 ELSE Len(Head(parts)) + TotalLen(Tail(parts))

\* lines 459-501: the loop over the sentences
RECURSIVE FallbackLoop(_, _, _, _)
FallbackLoop(sentences, k, st, cfg) ==
    IF k > Len(sentences) THEN st
    ELSE LET sentence == sentences[k]
             flush == /\ st.current_length + Len(sentence) > TargetSize(cfg)
                      /\ st.current_chunk # <<>>
             chunk_text == Join(st.current_chunk)
             end_pos == st.char_pos + Len(chunk_text)
             kept == OverlapFrom(st.current_chunk, Len(st.current_chunk), <<>>, 0,
                                 OverlapSize(cfg))
             st1 == IF flush
                    THEN [chunks |-> Append(st.chunks,
                                       ChunkMetadata(st.chunk_idx, chunk_text, "none",
                                                     st.char_pos, end_pos)),
                          chunk_idx |-> st.chunk_idx + 1,
                          char_pos |-> end_pos + 1,
                          current_chunk |-> kept,
                          current_length |-> TotalLen(kept)]
                    ELSE st
         IN  FallbackLoop(sentences, k + 1,
                          [st1 EXCEPT !.current_chunk = Append(@, sentence),
                                      !.current_length = @ + Len(sentence)],
                          cfg)

\* OllamaChunker._fallback_sentence_chunking
_fallback_sentence_chunking(str, cfg) ==
    LET st == FallbackLoop(SplitSentences(str), 1,
                           [chunks |-> <<>>, chunk_idx |-> 0, char_pos |-> 0,
                            current_chunk |-> <<>>, current_length |-> 0], cfg)
        chunk_text == Join(st.current_chunk)
    IN  IF st.current_chunk # <<>>
        THEN Append(st.chunks,
                    ChunkMetadata(st.chunk_idx, chunk_text, "none", st.char_pos,
                                  st.char_pos + Len(chunk_text)))
        ELSE st.chunks

\* Values of "start_pos" / "end_pos" in the LLM's JSON: an integer, a
\* number with a fraction (n + 1/2), a string that is no number, or the
\* key is missing.
IntValue(n) == <<"int", n>>
FloatValue(n) == <<"float", n>>
StrValue == <<"str", 0>>
MissingKey == <<"missing", 0>>

\* int(v): truncates a float, raises ValueError for a non-numeric string.
IntRaises(v) == v[1] = "str"
int(v) == v[2]

\* lines 338-369: the loop over data["chunks"]
RECURSIVE ParseLoop(_, _, _, _)
ParseLoop(data, k, str, acc) ==
    IF k > Len(data) THEN acc
    ELSE LET chunk_data == data[k] IN
         IF chunk_data.start_pos[1] = "missing" \/ chunk_data.end_pos[1] = "missing"
         THEN ParseLoop(data, k + 1, str, [acc EXCEPT !.invalid_chunks = @ + 1])
         ELSE IF IntRaises(chunk_data.start_pos) \/ IntRaises(chunk_data.end_pos)
         THEN [acc EXCEPT !.raised = TRUE]
         ELSE LET start_pos == int(chunk_data.start_pos)
                  end_pos == int(chunk_data.end_pos)
              IN  IF start_pos < 0 \/ end_pos > Len(str) \/ start_pos >= end_pos
                  THEN ParseLoop(data, k + 1, str,
                                 [acc EXCEPT !.invalid_chunks = @ + 1])
                  ELSE ParseLoop(data, k + 1, str,
                                 [acc EXCEPT !.chunks =
                                     Append(@, ChunkMetadata(k - 1,
                                                  Slice(str, start_pos, end_pos),
                                                  "topic", start_pos, end_pos))])

\* OllamaChunker._parse_ollama_response: the chunks, or raised = TRUE.
_parse_ollama_response(response, str) ==
    IF response.kind # "json"
    THEN [chunks |-> <<>>, invalid_chunks |-> 0, raised |-> TRUE]
    ELSE LET acc == ParseLoop(response.chunks, 1, str,
                              [chunks |-> <<>>, invalid_chunks |-> 0, raised |-> FALSE])
         IN  IF acc.raised THEN acc
             ELSE IF acc.invalid_chunks > 0 \/ acc.chunks = <<>>
                  THEN [acc EXCEPT !.raised = TRUE]
                  ELSE acc

\* OllamaChunker.chunk_by_topics: the parsed chunks, or the fallback after
\* any exception (the HTTP call failed, the response did not parse).
chunk_by_topics(response, str, cfg) ==
    LET parsed == _parse_ollama_response(response, str) IN
    IF response.kind = "http_error" \/ parsed.raised
    THEN _fallback_sentence_chunking(str, cfg)
    ELSE parsed.chunks

\* _create_sentence_chunks (chunk.py): one chunk per non-blank segment.
RECURSIVE SentenceLoop(_, _, _)
SentenceLoop(segs, k, sentences) ==
    IF k > Len(segs) THEN sentences
    ELSE LET text == Strip(segs[k]) IN
         SentenceLoop(segs, k + 1,
                      IF text # <<>>
                      THEN Append(sentences,
                                  ChunkMetadata(Len(sentences), text, "none", 0, Len(text)))
                      ELSE sentences)

_create_sentence_chunks(segs) == SentenceLoop(segs, 1, <<>>)

\* _create_single_chunk (chunk.py)
_create_single_chunk(str) == <<ChunkMetadata(0, str, "none", 0, Len(str))>>

(***************************************************************************)
(* Part III: chunk_with_ollama_activity, called with the transcript and    *)
(* the segments, under Temporal's retry policy.                            *)
(***************************************************************************)
MaxLLMChunks == 2

\* Whisper results: the texts of the segments; result["text"] is their
\* concatenation.  None, one blank, "a", "a."+" a.", "a."+"  a.",
\* "aa."+" aa.".
SegmentLists ==
    {<<>>,
     << <<" ">> >>,
     << <<"a">> >>,
     << <<"a", ".">>, <<" ", "a", ".">> >>,
     << <<"a", ".">>, <<" ", " ", "a", ".">> >>,
     << <<"a", "a", ".">>, <<" ", "a", "a", ".">> >>}

RECURSIVE Concat(_)
Concat(parts) == IF parts = <<>> THEN <<>> ELSE Head(parts) \o Concat(Tail(parts))

Transcripts == {Concat(segs) : segs \in SegmentLists}

\* Settings (config.py): the defaults, and two small chunk sizes.
Settings ==
    {[enable_semantic_chunking |-> TRUE, chunk_max_tokens |-> m[1],
      chunk_overlap_tokens |-> m[2]] : m \in {<<500, 50>>, <<1, 0>>, <<1, 1>>}}
    \cup {[enable_semantic_chunking |-> FALSE, chunk_max_tokens |-> 500,
           chunk_overlap_tokens |-> 50]}

\* What the LLM may answer for a transcript.
StartValues == {IntValue(0), IntValue(2), MissingKey}
EndValues(n) == {IntValue(2), IntValue(n), FloatValue(2), StrValue}

ChunkData(n) == [start_pos : StartValues, end_pos : EndValues(n)]

RECURSIVE ListsUpTo(_, _)
ListsUpTo(S, n) ==
    IF n = 0 THEN {<<>>}
    ELSE LET shorter == ListsUpTo(S, n - 1)
         IN  shorter \cup {Append(l, x) : l \in {y \in shorter : Len(y) = n - 1}, x \in S}

\* The answers, by the length of the transcript in the prompt.
ResponsesByLen ==
    [n \in {Len(t) : t \in Transcripts} |->
        {[kind |-> "http_error", chunks |-> <<>>], [kind |-> "no_json", chunks |-> <<>>]}
        \cup {[kind |-> "json", chunks |-> l] :
                 l \in ListsUpTo(ChunkData(n), MaxLLMChunks)}]

Responses(str) == ResponsesByLen[Len(str)]

NoResponse == [kind |-> "none", chunks |-> <<>>]

NoResult == [chunking_method |-> "none", chunk_count |-> 0, chunks |-> <<>>]

\* (fault injected into _save_chunks_to_db: the earlier rows are kept)
_save_chunks_to_db_keeps_rows(rows, chunks) == rows \o chunks

\* _save_chunks_to_db: DELETE the job's rows and insert the chunks, one
\* transaction.
_save_chunks_to_db(rows, chunks) == SubSeq(rows, 1, 0) \o chunks

\* Temporal's handling of an attempt that did not return.
ChunkAttemptLost ==
    IF chunk_attempt < ChunkMaxAttempts
    THEN chunk_attempt' = chunk_attempt + 1 /\ UNCHANGED chunk_state
    ELSE chunk_state' = "failed" /\ UNCHANGED chunk_attempt

\* The end of an attempt that computed `chunks`:
\*   "return": the rows are committed and the ChunkingResult is returned;
\*   "lost":   the rows are committed, the worker dies before returning;
\*   "raise":  the commit raises, the activity re-raises.
ChunkAttemptEnds(chunks, method, outcome) ==
    /\ chunk_state = "running"
    /\ chunk_commits' = IF outcome = "raise" THEN chunk_commits ELSE chunk_commits + 1
    /\ CASE outcome = "return" ->
              /\ job_chunk_rows' = _save_chunks_to_db(job_chunk_rows, chunks)
              /\ chunking_result' = [chunking_method |-> method,
                                     chunk_count |-> Len(chunks), chunks |-> chunks]
              /\ chunk_state' = "returned"
              /\ UNCHANGED chunk_attempt
         [] outcome = "lost" ->
              /\ job_chunk_rows' = _save_chunks_to_db(job_chunk_rows, chunks)
              /\ ChunkAttemptLost
              /\ UNCHANGED chunking_result
         [] outcome = "raise" ->
              /\ ChunkAttemptLost
              /\ UNCHANGED <<job_chunk_rows, chunking_result>>
    /\ UNCHANGED <<transcript, segments, settings, llm_response>>
    /\ UNCHANGED otherThanChunks

Outcomes == {"return", "lost", "raise"}

\* lines 65-69: semantic chunking is disabled.
chunk_activity_single(outcome) ==
    /\ ~settings.enable_semantic_chunking
    /\ ChunkAttemptEnds(_create_single_chunk(transcript), "single", outcome)

\* lines 80-85: the health check failed.
chunk_activity_sentence(outcome) ==
    /\ settings.enable_semantic_chunking
    /\ ChunkAttemptEnds(_create_sentence_chunks(segments), "sentence", outcome)

\* lines 87-112: the LLM chunker (with its own fallback).
chunk_activity_ollama(response, outcome) ==
    /\ settings.enable_semantic_chunking
    /\ ChunkAttemptEnds(chunk_by_topics(response, transcript, settings), "ollama",
                        outcome)

InitChunkIdle ==
    /\ transcript = <<>>
    /\ segments = <<>>
    /\ settings = [enable_semantic_chunking |-> TRUE, chunk_max_tokens |-> 500,
                   chunk_overlap_tokens |-> 50]
    /\ job_chunk_rows = <<>>
    /\ chunking_result = NoResult
    /\ chunk_attempt = 0
    /\ chunk_state = "idle"
    /\ chunk_commits = 0
    /\ llm_response = NoResponse

InitChunkRows ==
    /\ segments \in SegmentLists
    /\ transcript = Concat(segments)
    /\ settings \in Settings
    /\ job_chunk_rows = <<>>
    /\ chunking_result = NoResult
    /\ chunk_attempt = 1
    /\ chunk_state = "running"
    /\ chunk_commits = 0
    /\ llm_response = NoResponse

\* The activity is entered with semantic chunking enabled and Ollama
\* healthy; the LLM gives the same answer to every attempt.
InitParseRows ==
    /\ segments \in SegmentLists
    /\ transcript = Concat(segments)
    /\ settings \in {cfg \in Settings : cfg.enable_semantic_chunking}
    /\ job_chunk_rows = <<>>
    /\ chunking_result = NoResult
    /\ chunk_attempt = 1
    /\ chunk_state = "running"
    /\ chunk_commits = 0
    /\ llm_response \in Responses(transcript)

NextParse == \E o \in Outcomes : chunk_activity_ollama(llm_response, o)

NextChunks ==
    \/ \E o \in Outcomes : chunk_activity_single(o)
    \/ \E o \in Outcomes : chunk_activity_sentence(o)
    \/ \E r \in Responses(transcript), o \in Outcomes : chunk_activity_ollama(r, o)

(***************************************************************************)
(* Part IV: the rows written by the four activities of one                 *)
(* TranscribeWorkflow run, with attempts that return, that commit and are  *)
(* lost before they return, and that raise before they commit.             *)
(***************************************************************************)
NoTranscript == <<FALSE, <<>>>>
NoEmbedding == <<"null">>

\* generate_embeddings_batch: a function of the chunk's text.
Embedding(text) == <<"embedding", text>>

\* The canonical topics (Topic rows).
TopicNames == {"Unknown", "Technology"}

\* What analyze_topic_summaries_with_llm can return: the canonical names
\* found in the LLM's answer, each once.
TopicLists ==
    {<<>>, <<"Unknown">>, <<"Technology">>, <<"Unknown", "Technology">>}

TranscriptionChunk(text, topic, embedding) ==
    [text |-> text, topic_summary |-> topic, embedding |-> embedding]

\* TranscriptionChunk rows written by TranscriptionService.create_chunks
\* before the run: none, one with an embedding, two without.
TranscriptionChunkRows ==
    {<<>>,
     <<TranscriptionChunk(<<"a">>, "none", Embedding(<<"a", ".">>))>>,
     <<TranscriptionChunk(<<"a">>, "topic", NoEmbedding),
       TranscriptionChunk(<<"a", ".">>, "none", NoEmbedding)>>}

\* (fault injected into assign_topics: the existing links are not looked up)
assign_topics_adds_again(links, topic_ids) == links \o topic_ids

\* TranscriptionService.assign_topics: a link for every topic id that has
\* none yet.
RECURSIVE assign_topics(_, _)
assign_topics(links, topic_ids) ==
    IF topic_ids = <<>> THEN links
    ELSE LET topic_id == Head(topic_ids)
             existing == \E i \in DOMAIN links : links[i] = topic_id
         IN  assign_topics(IF existing THEN links ELSE Append(links, topic_id),
                           Tail(topic_ids))

\* get_chunk_topic_summaries: the non-empty topic_summary values.
get_chunk_topic_summaries(rows) ==
    SelectSeq([i \in DOMAIN rows |-> rows[i].topic_summary],
              LAMBDA summary : summary # "none")

\* map_topics_to_ids: the id of each name (a name with no Topic row gets the
\* id of Unknown); ids are modelled by the canonical names.
map_topics_to_ids(topic_names) ==
    [i \in DOMAIN topic_names |->
        IF topic_names[i] \in TopicNames THEN topic_names[i] ELSE "Unknown"]

At(activity) == pipe.activity = activity

\* Temporal's handling of an attempt that did not return.
PipeAttemptLost(maximum_attempts) ==
    pipe' = IF pipe.attempt < maximum_attempts
            THEN [pipe EXCEPT !.attempt = @ + 1]
            ELSE [activity |-> "failed", attempt |-> pipe.attempt]

\* transcribe_activity: update_transcription_result stores result["text"].
transcribe_activity_result(outcome) ==
    /\ At("transcribe")
    /\ transcription_transcript' =
          IF outcome = "raise" THEN transcription_transcript ELSE <<TRUE, transcript>>
    /\ IF outcome = "return"
       THEN /\ pipe' = [activity |-> "chunk", attempt |-> 1]
            /\ chunk_state' = "running"
            /\ chunk_attempt' = 1
       ELSE /\ PipeAttemptLost(TranscribeMaxAttempts)
            /\ UNCHANGED <<chunk_state, chunk_attempt>>
    /\ UNCHANGED <<transcript, segments, settings, job_chunk_rows, chunking_result,
                   chunk_commits, llm_response>>
    /\ UNCHANGED <<transcription_chunks, transcription_topics>>
    /\ UNCHANGED otherThanPipe

\* workflow.py, step 3: the chunk activity has returned.
AtTopics == At("assign_topics") \/ (At("chunk") /\ chunk_state = "returned")

\* assign_topics_activity: summaries, the LLM's topics, their ids, the links.
assign_topics_activity_result(found_topics, outcome) ==
    /\ AtTopics
    /\ LET summaries == get_chunk_topic_summaries(transcription_chunks)
           topic_names == IF summaries = <<>> THEN <<>> ELSE found_topics
           topic_ids == map_topics_to_ids(topic_names)
       IN  transcription_topics' =
              IF outcome = "raise" THEN transcription_topics
              ELSE assign_topics(transcription_topics, topic_ids)
    /\ IF outcome = "return"
       THEN pipe' = [activity |-> "embed", attempt |-> 1]
       ELSE LET this_attempt == IF At("chunk") THEN 1 ELSE pipe.attempt
            IN  pipe' = IF this_attempt < AssignTopicsMaxAttempts
                        THEN [activity |-> "assign_topics", attempt |-> this_attempt + 1]
                        ELSE [activity |-> "failed", attempt |-> this_attempt]
    /\ UNCHANGED <<transcription_transcript, transcription_chunks>>
    /\ UNCHANGED chunkVars
    /\ UNCHANGED otherThanPipe

\* embed_chunks_activity: every chunk's embedding is set from its text.
embed_chunks_activity_result(outcome) ==
    /\ At("embed")
    /\ transcription_chunks' =
          IF outcome = "raise" THEN transcription_chunks
          ELSE [i \in DOMAIN transcription_chunks |->
                   [transcription_chunks[i] EXCEPT
                       !.embedding = Embedding(transcription_chunks[i].text)]]
    /\ IF outcome = "return"
       THEN pipe' = [activity |-> "done", attempt |-> pipe.attempt]
       ELSE PipeAttemptLost(EmbedMaxAttempts)
    /\ UNCHANGED <<transcription_transcript, transcription_topics>>
    /\ UNCHANGED chunkVars
    /\ UNCHANGED otherThanPipe

InitPipeIdle ==
    /\ pipe = [activity |-> "none", attempt |-> 0]
    /\ transcription_transcript = NoTranscript
    /\ transcription_chunks = <<>>
    /\ transcription_topics = <<>>

\* A run starts: the Whisper result, the settings and the chunk rows that
\* exist are fixed, no activity has run.
InitPipeRows ==
    /\ segments \in SegmentLists
    /\ transcript = Concat(segments)
    /\ settings \in Settings
    /\ job_chunk_rows = <<>>
    /\ chunking_result = NoResult
    /\ chunk_attempt = 0
    /\ chunk_state = "idle"
    /\ chunk_commits = 0
    /\ llm_response = NoResponse
    /\ pipe = [activity |-> "transcribe", attempt |-> 1]
    /\ transcription_transcript = NoTranscript
    /\ transcription_chunks \in TranscriptionChunkRows
    /\ transcription_topics = <<>>

NextPipeline ==
    \/ \E o \in Outcomes : transcribe_activity_result(o)
    \/ NextChunks
    \/ \E t \in TopicLists, o \in Outcomes : assign_topics_activity_result(t, o)
    \/ \E o \in Outcomes : embed_chunks_activity_result(o)

(***************************************************************************)
(* Part V: the Topic table (TopicService, seed_topics.py) and the topic    *)
(* links of one transcription written while admins change the topics.      *)
(***************************************************************************)
MaxTopicId == 3

TopicIds == 1..MaxTopicId
TopicNameSet == {"Unknown", "Educational", "Misc"}

\* The topics of INITIAL_TOPICS the model keeps.
SeedNames == <<"Unknown", "Educational">>

NoTopic == [name |-> "", parent_id |-> NoId]

TopicExists(rows, id) == id \in TopicIds /\ rows[id] # NoTopic

\* get_topic_by_name
get_topic_by_name(rows, name) == {id \in TopicIds : TopicExists(rows, id) /\ rows[id].name = name}

\* TopicService._would_create_cycle: walk from new_parent_id up the parents.
RECURSIVE _would_create_cycle(_, _, _, _)
_would_create_cycle(rows, topic_id, current_id, visited) ==
    IF current_id = NoId THEN FALSE
    ELSE IF current_id = topic_id THEN TRUE
    ELSE IF current_id \in visited THEN FALSE
    ELSE _would_create_cycle(rows, topic_id,
                             IF TopicExists(rows, current_id)
                             THEN rows[current_id].parent_id ELSE NoId,
                             visited \cup {current_id})

\* TopicService.create_topic (one transaction; ids come from a sequence).
create_topic(name, parent_id) ==
    /\ next_topic_id <= MaxTopicId
    /\ get_topic_by_name(topics, name) = {}
    /\ parent_id # NoId => TopicExists(topics, parent_id)
    /\ topics' = [topics EXCEPT ![next_topic_id] =
                     [name |-> name, parent_id |-> parent_id]]
    /\ next_topic_id' = next_topic_id + 1
    /\ UNCHANGED <<topic_calls, reset_pending, assign, topic_links>>
    /\ UNCHANGED otherThanTopics

\* TopicService.update_topic with a new name only.
update_topic_name(topic_id, name) ==
    /\ TopicExists(topics, topic_id)
    /\ name # topics[topic_id].name
    /\ get_topic_by_name(topics, name) = {}
    /\ topics' = [topics EXCEPT ![topic_id].name = name]
    /\ UNCHANGED <<next_topic_id, topic_calls, reset_pending, assign, topic_links>>
    /\ UNCHANGED otherThanTopics

\* TopicService.update_topic with a new parent, lines 120-149: the checks,
\* read from the committed rows.
update_topic_check(p, topic_id, parent_id) ==
    /\ topic_calls[p] = <<NoId, NoId>>
    /\ TopicExists(topics, topic_id)
    /\ TopicExists(topics, parent_id)
    /\ parent_id # topic_id
    /\ ~_would_create_cycle(topics, topic_id, parent_id, {})
    /\ topic_calls' = [topic_calls EXCEPT ![p] = <<topic_id, parent_id>>]
    /\ UNCHANGED <<topics, next_topic_id, reset_pending, assign, topic_links>>
    /\ UNCHANGED otherThanTopics

\* ... lines 149-151: topic.parent_id = parent_id, commit (the UPDATE fails
\* when the row or the parent has been deleted meanwhile).
update_topic_commit(p) ==
    /\ topic_calls[p] # <<NoId, NoId>>
    /\ LET topic_id == topic_calls[p][1]
           parent_id == topic_calls[p][2]
       IN  topics' = IF TopicExists(topics, topic_id) /\ TopicExists(topics, parent_id)
                     THEN [topics EXCEPT ![topic_id].parent_id = parent_id]
                     ELSE topics
    /\ topic_calls' = [topic_calls EXCEPT ![p] = <<NoId, NoId>>]
    /\ UNCHANGED <<next_topic_id, reset_pending, assign, topic_links>>
    /\ UNCHANGED otherThanTopics

\* TopicService.delete_topic: refused while the topic has children; the
\* links to the topic cascade.
delete_topic(topic_id) ==
    /\ TopicExists(topics, topic_id)
    /\ \A id \in TopicIds : TopicExists(topics, id) => topics[id].parent_id # topic_id
    /\ topics' = [topics EXCEPT ![topic_id] = NoTopic]
    /\ topic_links' = SelectSeq(topic_links, LAMBDA id : id # topic_id)
    /\ UNCHANGED <<next_topic_id, topic_calls, reset_pending, assign>>
    /\ UNCHANGED otherThanTopics

\* seed_topics: every initial topic that is missing is created, one commit.
RECURSIVE SeedLoop(_, _, _)
SeedLoop(rows, next, k) ==
    IF k > Len(SeedNames) THEN <<rows, next>>
    ELSE IF get_topic_by_name(rows, SeedNames[k]) # {}
         THEN SeedLoop(rows, next, k + 1)
         ELSE SeedLoop([rows EXCEPT ![next] = [name |-> SeedNames[k], parent_id |-> NoId]],
                       next + 1, k + 1)

Missing(rows) ==
    Cardinality({k \in DOMAIN SeedNames : get_topic_by_name(rows, SeedNames[k]) = {}})

seed_topics ==
    /\ next_topic_id + Missing(topics) <= MaxTopicId + 1
    /\ topics' = SeedLoop(topics, next_topic_id, 1)[1]
    /\ next_topic_id' = SeedLoop(topics, next_topic_id, 1)[2]
    /\ reset_pending' = FALSE
    /\ UNCHANGED <<topic_calls, assign, topic_links>>
    /\ UNCHANGED otherThanTopics

\* reset_topics, lines 270-273: DELETE every topic, commit; seed_topics
\* follows as a second transaction.
reset_topics_delete ==
    /\ ~reset_pending
    /\ topics' = [id \in TopicIds |-> NoTopic]
    /\ topic_links' = <<>>
    /\ reset_pending' = TRUE
    /\ UNCHANGED <<next_topic_id, topic_calls, assign>>
    /\ UNCHANGED otherThanTopics

\* assign_topics_activity, steps 1-3: the canonical names are read and the
\* LLM's answer is matched against them.
assign_topics_analyze(found_topics) ==
    /\ assign.pc = "idle"
    /\ \A i \in DOMAIN found_topics : get_topic_by_name(topics, found_topics[i]) # {}
    /\ assign' = [pc |-> "analyzed", topic_names |-> found_topics, topic_ids |-> <<>>]
    /\ UNCHANGED <<topics, next_topic_id, topic_calls, reset_pending, topic_links>>
    /\ UNCHANGED otherThanTopics

\* map_topics_to_ids over the Topic rows of now: a name without a row gets
\* the id of Unknown, or is dropped when Unknown has no row either.
TopicIdOf(rows, name) ==
    IF get_topic_by_name(rows, name) # {}
    THEN CHOOSE id \in get_topic_by_name(rows, name) : TRUE
    ELSE IF get_topic_by_name(rows, "Unknown") # {}
         THEN CHOOSE id \in get_topic_by_name(rows, "Unknown") : TRUE
         ELSE NoId

map_names_to_ids(rows, topic_names) ==
    SelectSeq([i \in DOMAIN topic_names |-> TopicIdOf(rows, topic_names[i])],
              LAMBDA id : id # NoId)

\* ... steps 3-4: map_topics_to_ids, then assign_topics, which raises when
\* the Topic rows found are fewer than the ids it was handed.
assign_topics_persist ==
    /\ assign.pc = "analyzed"
    /\ LET topic_ids == map_names_to_ids(topics, assign.topic_names)
           found == {topic_ids[i] : i \in DOMAIN topic_ids}
       IN  /\ assign' = [assign EXCEPT !.pc = IF Cardinality(found) # Len(topic_ids)
                                               THEN "raised" ELSE "done",
                                        !.topic_ids = topic_ids]
           /\ topic_links' = IF Cardinality(found) # Len(topic_ids)
                             THEN topic_links
                             ELSE assign_topics(topic_links, topic_ids)
    /\ UNCHANGED <<topics, next_topic_id, topic_calls, reset_pending>>
    /\ UNCHANGED otherThanTopics

InitTopicsIdle ==
    /\ topics = [id \in TopicIds |-> NoTopic]
    /\ next_topic_id = 1
    /\ topic_calls = [p \in Procs |-> <<NoId, NoId>>]
    /\ reset_pending = FALSE
    /\ assign = [pc |-> "idle", topic_names |-> <<>>, topic_ids |-> <<>>]
    /\ topic_links = <<>>

\* The database after seed_topics has run once.
InitTopicRows ==
    /\ topics = SeedLoop([id \in TopicIds |-> NoTopic], 1, 1)[1]
    /\ next_topic_id = Len(SeedNames) + 1
    /\ topic_calls = [p \in Procs |-> <<NoId, NoId>>]
    /\ reset_pending = FALSE
    /\ assign = [pc |-> "idle", topic_names |-> <<>>, topic_ids |-> <<>>]
    /\ topic_links = <<>>

NameLists ==
    {<<n>> : n \in TopicNameSet}
    \cup {<<pair[1], pair[2]>> :
             pair \in {q \in TopicNameSet \X TopicNameSet : q[1] # q[2]}}

NextTopics ==
    \/ \E n \in TopicNameSet, parent \in TopicIds \cup {NoId} : create_topic(n, parent)
    \/ \E id \in TopicIds, n \in TopicNameSet : update_topic_name(id, n)
    \/ \E p \in Procs, id \in TopicIds, parent \in TopicIds : update_topic_check(p, id, parent)
    \/ \E p \in Procs : update_topic_commit(p)
    \/ \E id \in TopicIds : delete_topic(id)
    \/ seed_topics
    \/ reset_topics_delete
    \/ \E l \in NameLists : assign_topics_analyze(l)
    \/ assign_topics_persist

(***************************************************************************)
(* Part VI: POST /search (semantic_search in main.py) over the job_chunks  *)
(* rows joined with their jobs.                                            *)
(***************************************************************************)
MaxSearchRows == 3

\* Embeddings are points on a line, the distance is the absolute
\* difference; NoVector is NULL.
NoVector == -1
Vectors == {0, 1}

Distance(a, b) == IF a >= b THEN a - b ELSE b - a

\* A job_chunks row joined with its job: the columns the query looks at.
SearchRow ==
    [chunk_id : 1..MaxSearchRows, user_id : Users,
     status : {"completed", "processing"}, embedding : Vectors \cup {NoVector}]

\* The tables: at most one row per chunk id; a row of a job that is not
\* completed has some embedding.
SearchTables ==
    LET Absent == [chunk_id |-> 0]
        RowsOf(id) ==
            {r \in SearchRow : (r.chunk_id = id)
                                  /\ (r.status = "processing" => r.embedding = 0)}
        Choices == {f \in [1..MaxSearchRows -> SearchRow \cup {Absent}] :
                       \A id \in 1..MaxSearchRows : f[id] \in RowsOf(id) \cup {Absent}}
    IN  {{f[id] : id \in {i \in 1..MaxSearchRows : f[i] # Absent}} : f \in Choices}

\* (fault injected into Matching: jobs.user_id is not compared)
MatchingAnyUser(rows, user_id) ==
    {r \in rows : r.status = "completed" /\ r.embedding # NoVector}

\* The WHERE clause.
Matching(rows, user_id) ==
    {r \in rows : r.status = "completed" /\ r.embedding # NoVector
                  /\ r.user_id = user_id}

\* ORDER BY embedding <=> :query_embedding LIMIT :limit: the nearest rows in
\* order of distance; rows at the same distance come in any order.
SearchResults(rows, user_id, query_embedding, limit) ==
    LET matching == Matching(rows, user_id)
        k == IF Cardinality(matching) < limit THEN Cardinality(matching) ELSE limit
    IN  {s \in [1..k -> matching] :
           /\ \A i, j \in 1..k : i < j =>
                 /\ s[i] # s[j]
                 /\ Distance(s[i].embedding, query_embedding)
                       <= Distance(s[j].embedding, query_embedding)
           /\ \A r \in matching \ {s[i] : i \in 1..k} :
                 \A i \in 1..k : Distance(s[i].embedding, query_embedding)
                                    <= Distance(r.embedding, query_embedding)}

NoSearch == [user_id |-> "none", query_embedding |-> NoVector, limit |-> 0, results |-> <<>>]

semantic_search(user_id, query_embedding, limit) ==
    /\ search_result = NoSearch
    /\ \E s \in SearchResults(search_rows, user_id, query_embedding, limit) :
          search_result' = [user_id |-> user_id, query_embedding |-> query_embedding,
                            limit |-> limit, results |-> s]
    /\ UNCHANGED search_rows
    /\ UNCHANGED <<active_connections, sockets, send>>
    /\ UNCHANGED otherThanSearch

InitSearchIdle == search_rows = {} /\ search_result = NoSearch
InitSearchRows == search_rows \in SearchTables /\ search_result = NoSearch

NextSearch ==
    \E u \in Users, q \in Vectors, limit \in 1..MaxSearchRows : semantic_search(u, q, limit)

(***************************************************************************)
(* Part VII: progress events (websocket_manager.py) and the WebSocket      *)
(* endpoint of one job_id.                                                 *)
(***************************************************************************)
MaxConnections == 2

Connections == 1..MaxConnections
NoConnection == 0

\* job_updates_websocket, lines 421-425: accept, register.
job_updates_websocket_accept(c) ==
    /\ sockets[c] = "none"
    /\ sockets' = [sockets EXCEPT ![c] = "open"]
    /\ active_connections' = c
    /\ UNCHANGED send
    /\ UNCHANGED <<search_rows, search_result>>
    /\ UNCHANGED otherThanSearch

\* The client goes away.
client_disconnects(c) ==
    /\ sockets[c] = "open"
    /\ sockets' = [sockets EXCEPT ![c] = "disconnected"]
    /\ UNCHANGED <<active_connections, send>>
    /\ UNCHANGED <<search_rows, search_result>>
    /\ UNCHANGED otherThanSearch

\* ... lines 434-445: receive_text raises WebSocketDisconnect; finally: the
\* entry of the job_id is deleted if there is one.
job_updates_websocket_finally(c) ==
    /\ sockets[c] = "disconnected"
    /\ sockets' = [sockets EXCEPT ![c] = "closed"]
    /\ active_connections' = NoConnection
    /\ UNCHANGED send
    /\ UNCHANGED <<search_rows, search_result>>
    /\ UNCHANGED otherThanSearch

\* send_job_update, lines 22-33 and 46-47: look the connection up; without
\* one the event is dropped, with one send_text is awaited.
send_job_update_begin ==
    /\ send.pc \in {"idle", "returned"}
    /\ send' = IF active_connections = NoConnection
               THEN [pc |-> "returned", websocket |-> NoConnection, event |-> "dropped"]
               ELSE [pc |-> "send_text", websocket |-> active_connections,
                     event |-> "sending"]
    /\ UNCHANGED <<active_connections, sockets>>
    /\ UNCHANGED <<search_rows, search_result>>
    /\ UNCHANGED otherThanSearch

\* ... lines 33-38: send_text returned.
send_job_update_sent ==
    /\ send.pc = "send_text"
    /\ sockets[send.websocket] = "open"
    /\ send' = [send EXCEPT !.pc = "returned", !.event = "delivered"]
    /\ UNCHANGED <<active_connections, sockets>>
    /\ UNCHANGED <<search_rows, search_result>>
    /\ UNCHANGED otherThanSearch

\* ... lines 39-45: send_text raised; del active_connections[job_id], which
\* raises KeyError when the entry is gone.
send_job_update_except ==
    /\ send.pc = "send_text"
    /\ sockets[send.websocket] # "open"
    /\ send' = [send EXCEPT !.pc = IF active_connections = NoConnection
                                   THEN "raised" ELSE "returned",
                            !.event = "dropped"]
    /\ active_connections' = NoConnection
    /\ UNCHANGED sockets
    /\ UNCHANGED <<search_rows, search_result>>
    /\ UNCHANGED otherThanSearch

InitEvents ==
    /\ active_connections = NoConnection
    /\ sockets = [c \in Connections |-> "none"]
    /\ send = [pc |-> "idle", websocket |-> NoConnection, event |-> "none"]

NextEvents ==
    \/ \E c \in Connections : job_updates_websocket_accept(c)
    \/ \E c \in Connections : client_disconnects(c)
    \/ \E c \in Connections : job_updates_websocket_finally(c)
    \/ send_job_update_begin
    \/ send_job_update_sent
    \/ send_job_update_except

(***************************************************************************)
(* Part VIII: the LLM chat call (OllamaChunker._call_ollama_with_retry).   *)
(***************************************************************************)
\* What one attempt of _call_ollama ends with: the streamed answer, or an
\* exception of httpx.
AttemptOutcomes == {"ok", "ConnectError", "TimeoutException", "5xx", "4xx", "ReadError"}

\* response.raise_for_status() raises HTTPStatusError for 4xx and for 5xx.
ExceptionOf(outcome) ==
    IF outcome \in {"4xx", "5xx"} THEN "HTTPStatusError" ELSE outcome

\* retry=retry_if_exception_type((TimeoutException, ConnectError, HTTPStatusError))
retry_if_exception_type(outcome) ==
    ExceptionOf(outcome) \in {"TimeoutException", "ConnectError", "HTTPStatusError"}

\* stop=stop_after_attempt(self.max_retries)
stop_after_attempt(attempt_number) == attempt_number >= ollama_max_retries

\* One attempt of _call_ollama under the retry decorator (reraise=True).
_call_ollama(outcome) ==
    /\ llm_call.state = "calling"
    /\ LET attempts == Append(llm_call.attempts, outcome)
       IN  llm_call' =
             [attempts |-> attempts,
              state |-> IF outcome = "ok" THEN "returned"
                        ELSE IF ~retry_if_exception_type(outcome) THEN "raised"
                        ELSE IF stop_after_attempt(Len(attempts)) THEN "raised"
                        ELSE "calling"]
    /\ UNCHANGED otherThanLLM

InitLLMIdle == llm_call = [attempts |-> <<>>, state |-> "idle"]
InitLLMCall == llm_call = [attempts |-> <<>>, state |-> "calling"]

NextLLM == \E outcome \in AttemptOutcomes : _call_ollama(outcome)

(***************************************************************************)
(* Part IX: AudioFileService.sanitize_filename.                            *)
(***************************************************************************)
MaxNameLen == 3

\* The characters of the file names tried: a letter, a letter outside
\* ASCII, and the characters the function treats specially.
NameChars == {"a", "é", "_", " ", "@", "-", "."}

FileNames == UNION {[1..n -> NameChars] : n \in 0..MaxNameLen}

\* \w of a str pattern: the letters, digits and underscore of Unicode.
IsWordChar(c) == c \in {"a", "é", "_"}
\* \s
IsWhitespace(c) == c = " "

\* os.path.splitext: the extension starts at the last dot, unless only dots
\* come before it.
LastDot(s) ==
    LET dots == {i \in 1..Len(s) : s[i] = "."}
    IN  IF dots = {} THEN 0 ELSE CHOOSE i \in dots : \A j \in dots : j <= i

splitext(s) ==
    LET i == LastDot(s)
    IN  IF i > 0 /\ \E j \in 1..(i - 1) : s[j] # "."
        THEN <<SubSeq(s, 1, i - 1), SubSeq(s, i, Len(s))>>
        ELSE <<s, <<>>>>

\* re.sub(r'[^\w\s\-]', '_', name)
ReplaceUnsafe(s) ==
    [i \in 1..Len(s) |->
        IF IsWordChar(s[i]) \/ IsWhitespace(s[i]) \/ s[i] = "-" THEN s[i] ELSE "_"]

\* re.sub(r'[\s_]+', '_', name)
RECURSIVE CollapseRuns(_)
CollapseRuns(s) ==
    IF s = <<>> THEN <<>>
    ELSE IF IsWhitespace(s[1]) \/ s[1] = "_"
         THEN IF Len(s) > 1 /\ (IsWhitespace(s[2]) \/ s[2] = "_")
              THEN CollapseRuns(Tail(s))
              ELSE <<"_">> \o CollapseRuns(Tail(s))
         ELSE <<s[1]>> \o CollapseRuns(Tail(s))

\* name.strip('_')
RECURSIVE StripUnderscores(_)
StripUnderscores(s) ==
    IF s = <<>> THEN <<>>
    ELSE IF s[1] = "_" THEN StripUnderscores(Tail(s))
    ELSE IF s[Len(s)] = "_" THEN StripUnderscores(SubSeq(s, 1, Len(s) - 1))
    ELSE s

\* name[:max_length]
Truncate(s, max_length) == IF Len(s) > max_length THEN SubSeq(s, 1, max_length) ELSE s

\* re.sub(r'[^\w\.]', '', ext)
CleanExt(s) == SelectSeq(s, LAMBDA c : IsWordChar(c) \/ c = ".")

\* sanitize_filename: the name part and the extension of the result.
sanitize_filename(name_in, max_length) ==
    LET parts == splitext(name_in)
        name == Truncate(StripUnderscores(CollapseRuns(ReplaceUnsafe(parts[1]))),
                         max_length)
        ext == CleanExt(parts[2])
    IN  [name |-> IF name # <<>> THEN name ELSE <<"f", "i", "l", "e">>, ext |-> ext]

NotSanitized == [name |-> <<>>, ext |-> <<>>]

sanitize(max_length) ==
    /\ sanitized = NotSanitized
    /\ sanitized' = sanitize_filename(filename, max_length)
    /\ UNCHANGED filename
    /\ UNCHANGED otherThanNames

InitNameIdle == filename = <<>> /\ sanitized = NotSanitized
InitNames == filename \in FileNames /\ sanitized = NotSanitized

NextNames == sanitize(DefaultMaxLength)

(***************************************************************************)
(* Part X: the progress events of one job (transcribe_activity,            *)
(* transcribe_audio, WhisperProgressBar, ProgressCallback) and the events  *)
(* of the attempts of the other activities.  A consumer is registered, so  *)
(* the events reach it in the order send_text is called.                   *)
(***************************************************************************)
MaxUpdates == 3

\* The total of the progress bar (content frames) and the steps by which
\* the model advances it.
TotalFrames == 40
Steps == {1, 2, 20}

NoProgress == -1

\* progress = int((current / total) * 100)
Percent(current, total) == (current * 100) \div total

Event(n, status, progress) == [stamp |-> n, status |-> status, progress |-> progress]

\* The coroutine of the activity is resumed from an await on the database
\* after the tasks that were ready before it: the event loop runs its ready
\* callbacks in the order they were scheduled.
\* (fault injected into Resumable: the activity overtakes the ready tasks)
ResumableAtOnce(queue) == TRUE

Resumable(queue) == queue = <<>>

\* transcribe_activity, lines 66-71, and transcribe_audio, lines 115-123:
\* the status event, the event with progress 0, the progress bar installed;
\* then whisper_model.transcribe runs, blocking.
transcribe_activity_start ==
    /\ tr.pc = "idle"
    /\ tr' = [tr EXCEPT !.pc = "model", !.first_event = Len(bus) + 1]
    /\ bus' = bus \o <<Event(stamp, "processing", NoProgress),
                       Event(stamp + 1, "processing", 0)>>
    /\ stamp' = stamp + 2
    /\ UNCHANGED <<bar, ready, last_progress, act_log>>
    /\ UNCHANGED dlVars
    /\ UNCHANGED otherThanProgress

\* WhisperProgressBar.update(n), called by the model: a task for
\* update_progress(current, total) is created.
WhisperProgressBar_update(n) ==
    /\ tr.pc = "model"
    /\ tr.updates < MaxUpdates
    /\ bar + n <= TotalFrames
    /\ bar' = bar + n
    /\ ready' = Append(ready, [current |-> bar + n, stamp |-> stamp])
    /\ stamp' = stamp + 1
    /\ tr' = [tr EXCEPT !.updates = @ + 1]
    /\ UNCHANGED <<last_progress, bus, act_log>>
    /\ UNCHANGED dlVars
    /\ UNCHANGED otherThanProgress

\* whisper_model.transcribe returns (line 129); the activity awaits
\* update_transcription_result.  Or it raises, and the except block of the
\* activity awaits mark_as_failed.
transcribe_returns(outcome) ==
    /\ tr.pc = "model"
    /\ tr' = [tr EXCEPT !.pc = IF outcome = "return" THEN "store" ELSE "except"]
    /\ UNCHANGED <<bar, ready, last_progress, bus, stamp, act_log>>
    /\ UNCHANGED dlVars
    /\ UNCHANGED otherThanProgress

\* ProgressCallback.update_progress, run as a task by the event loop, which
\* the model run has stopped blocking.
update_progress ==
    /\ tr.pc # "model"
    /\ ready # <<>>
    /\ LET task == Head(ready)
           progress == Percent(task.current, TotalFrames)
       IN  IF progress >= last_progress + 5 \/ progress = 100
           THEN /\ last_progress' = progress
                /\ bus' = Append(bus, Event(task.stamp, "processing", progress))
           ELSE UNCHANGED <<last_progress, bus>>
    /\ ready' = Tail(ready)
    /\ UNCHANGED <<tr, bar, stamp, act_log>>
    /\ UNCHANGED dlVars
    /\ UNCHANGED otherThanProgress

Statuses(events) == [i \in DOMAIN events |-> events[i].status]

Attempt(activity, outcome, events) ==
    [activity |-> activity, outcome |-> outcome, events |-> Statuses(events)]

\* transcribe_activity, lines 103-136: the result is stored, the event with
\* progress 60 sent, the activity returns.
transcribe_activity_returns ==
    /\ tr.pc = "store"
    /\ Resumable(ready)
    /\ bus' = Append(bus, Event(stamp, "processing", 60))
    /\ stamp' = stamp + 1
    /\ act_log' = Append(act_log,
                         Attempt("transcribe", "return",
                                 SubSeq(bus', tr.first_event, Len(bus'))))
    /\ tr' = [tr EXCEPT !.pc = "chunk"]
    /\ UNCHANGED <<bar, ready, last_progress>>
    /\ UNCHANGED dlVars
    /\ UNCHANGED otherThanProgress

\* ... lines 138-159: the except block marks the rows failed and re-raises.
transcribe_activity_raises ==
    /\ tr.pc \in {"store", "except"}
    /\ Resumable(ready)
    /\ act_log' = Append(act_log,
                         Attempt("transcribe", "raise",
                                 SubSeq(bus, tr.first_event, Len(bus))))
    /\ tr' = [tr EXCEPT !.pc = "failed"]
    /\ UNCHANGED <<bar, ready, last_progress, bus, stamp>>
    /\ UNCHANGED dlVars
    /\ UNCHANGED otherThanProgress

\* The events an attempt of the other activities sends: embed_chunks_activity
\* sends completed with progress 100 before it returns (line 108); its except
\* block, and the chunk and assign_topics activities, send none.
Emits(activity, outcome) ==
    IF activity = "embed" /\ outcome = "return"
    THEN <<[status |-> "completed", progress |-> 100]>>
    ELSE <<>>

NextActivity(activity) ==
    CASE activity = "chunk" -> "assign_topics"
      [] activity = "assign_topics" -> "embed"
      [] activity = "embed" -> "done"

activity_attempt(outcome) ==
    /\ tr.pc \in {"chunk", "assign_topics", "embed"}
    /\ LET sent == Emits(tr.pc, outcome)
           events == [i \in DOMAIN sent |-> Event(stamp + i - 1, sent[i].status,
                                                  sent[i].progress)]
       IN  /\ bus' = bus \o events
           /\ stamp' = stamp + Len(events)
           /\ act_log' = Append(act_log, Attempt(tr.pc, outcome, events))
    /\ tr' = [tr EXCEPT !.pc = IF outcome = "return" THEN NextActivity(tr.pc)
                                ELSE "failed"]
    /\ UNCHANGED <<bar, ready, last_progress>>
    /\ UNCHANGED dlVars
    /\ UNCHANGED otherThanProgress

InitProgressIdle ==
    /\ tr = [pc |-> "none", updates |-> 0, first_event |-> 1]
    /\ bar = 0
    /\ ready = <<>>
    /\ last_progress = 0
    /\ bus = <<>>
    /\ stamp = 1
    /\ act_log = <<>>

InitProgressRun ==
    /\ tr = [pc |-> "idle", updates |-> 0, first_event |-> 1]
    /\ bar = 0
    /\ ready = <<>>
    /\ last_progress = 0
    /\ bus = <<>>
    /\ stamp = 1
    /\ act_log = <<>>

NextProgress ==
    \/ transcribe_activity_start
    \/ \E n \in Steps : WhisperProgressBar_update(n)
    \/ \E outcome \in {"return", "raise"} : transcribe_returns(outcome)
    \/ update_progress
    \/ transcribe_activity_returns
    \/ transcribe_activity_raises
    \/ \E outcome \in {"return", "raise"} : activity_attempt(outcome)

(***************************************************************************)
(* Part XI: download_audio_activity and its heartbeat task.                *)
(***************************************************************************)
MaxQueue == 3

\* The status of the dicts yt-dlp hands to the progress hook.
HookStatuses == {"downloading", "finished", "error"}

\* Lines 77-114: the queue, the task process_heartbeats is created, the
\* download starts in the thread pool.
download_audio_activity_start ==
    /\ dl.pc = "idle"
    /\ dl' = [pc |-> "downloading", heartbeat_task |-> "running"]
    /\ UNCHANGED progress_queue
    /\ UNCHANGED progressVars
    /\ UNCHANGED otherThanProgress

\* download_service.py, progress_hook: progress_queue.put(d).
progress_hook(status) ==
    /\ dl.pc = "downloading"
    /\ Len(progress_queue) < MaxQueue
    /\ progress_queue' = Append(progress_queue, status)
    /\ UNCHANGED dl
    /\ UNCHANGED progressVars
    /\ UNCHANGED otherThanProgress

\* process_heartbeats, lines 80-109: one round of the loop of the task.
process_heartbeats ==
    /\ dl.heartbeat_task = "running"
    /\ progress_queue # <<>>
    /\ progress_queue' = Tail(progress_queue)
    /\ UNCHANGED dl
    /\ UNCHANGED progressVars
    /\ UNCHANGED otherThanProgress

\* Lines 114-126: download_audio returned; the task is cancelled and awaited.
download_audio_returns ==
    /\ dl.pc = "downloading"
    /\ dl' = [pc |-> "ingest", heartbeat_task |-> "cancelled"]
    /\ UNCHANGED progress_queue
    /\ UNCHANGED progressVars
    /\ UNCHANGED otherThanProgress

\* Line 114 raises: an exception of download_audio goes to the except block
\* (169-183), the cancellation of the activity past it to finally (185-186).
download_audio_raises(how) ==
    /\ dl.pc = "downloading"
    /\ dl' = [dl EXCEPT !.pc = IF how = "error" THEN "raised" ELSE "cancelled"]
    /\ UNCHANGED progress_queue
    /\ UNCHANGED progressVars
    /\ UNCHANGED otherThanProgress

\* Lines 134-167 and 169-186: create_from_download returns or raises, or
\* the activity is cancelled there.
create_from_download_ends(how) ==
    /\ dl.pc = "ingest"
    /\ dl' = [dl EXCEPT !.pc = CASE how = "return" -> "returned"
                                 [] how = "error" -> "raised"
                                 [] how = "cancel" -> "cancelled"]
    /\ UNCHANGED progress_queue
    /\ UNCHANGED progressVars
    /\ UNCHANGED otherThanProgress

InitDownloadIdle ==
    /\ dl = [pc |-> "none", heartbeat_task |-> "none"]
    /\ progress_queue = <<>>

InitDownloadRun ==
    /\ dl = [pc |-> "idle", heartbeat_task |-> "none"]
    /\ progress_queue = <<>>

NextDownload ==
    \/ download_audio_activity_start
    \/ \E status \in HookStatuses : progress_hook(status)
    \/ process_heartbeats
    \/ download_audio_returns
    \/ \E how \in {"error", "cancel"} : download_audio_raises(how)
    \/ \E how \in {"return", "error", "cancel"} : create_from_download_ends(how)

(***************************************************************************)
(* Specifications.                                                         *)
(***************************************************************************)
\* The steps of the workflow run of job j: the attempts of its activities.
WorkflowStep(j) ==
    \/ download_audio_activity_begin(j)
    \/ download_audio_activity_ok(j)
    \/ download_audio_activity_raise(j)
    \/ download_audio_activity_invalid_url(j)
    \/ download_audio_activity_except(j)
    \/ transcribe_activity_begin(j)
    \/ transcribe_activity_mark(j)
    \/ transcribe_activity_ok(j)
    \/ transcribe_activity_raise(j)
    \/ transcribe_activity_except(j)
    \/ \E n \in 0..MaxChunks : chunk_with_ollama_activity_ok(j, n)
    \/ chunk_with_ollama_activity_raise(j)
    \/ assign_topics_activity_ok(j)
    \/ assign_topics_activity_raise(j)
    \/ embed_chunks_activity_no_chunks(j)
    \/ embed_chunks_activity_store(j)
    \/ embed_chunks_activity_raise(j)
    \/ embed_chunks_activity_complete(j)
    \/ embed_chunks_activity_except(j)

InitEarlyIdle ==
    InitJobRows /\ InitStoreRows /\ InitChunkIdle /\ InitPipeIdle /\ InitTopicsIdle
       /\ InitSearchIdle /\ InitEvents
InitLateIdle == InitLLMIdle /\ InitNameIdle /\ InitProgressIdle /\ InitDownloadIdle
InitLLM ==
    InitEarlyIdle /\ InitLLMCall /\ InitNameIdle /\ InitProgressIdle /\ InitDownloadIdle
InitSanitize ==
    InitEarlyIdle /\ InitLLMIdle /\ InitNames /\ InitProgressIdle /\ InitDownloadIdle
InitProgress ==
    InitEarlyIdle /\ InitLLMIdle /\ InitNameIdle /\ InitProgressRun /\ InitDownloadIdle
InitDownload ==
    InitEarlyIdle /\ InitLLMIdle /\ InitNameIdle /\ InitProgressIdle /\ InitDownloadRun
InitJobs ==
    InitJobRows /\ InitStoreRows /\ InitChunkIdle /\ InitPipeIdle /\ InitTopicsIdle /\ InitSearchIdle /\ InitEvents /\ InitLateIdle
InitStore ==
    InitJobRows /\ InitStoreRows /\ InitChunkIdle /\ InitPipeIdle /\ InitTopicsIdle /\ InitSearchIdle /\ InitEvents /\ InitLateIdle
InitChunks ==
    InitJobRows /\ InitStoreRows /\ InitChunkRows /\ InitPipeIdle /\ InitTopicsIdle /\ InitSearchIdle /\ InitEvents /\ InitLateIdle
InitParse ==
    InitJobRows /\ InitStoreRows /\ InitParseRows /\ InitPipeIdle /\ InitTopicsIdle /\ InitSearchIdle /\ InitEvents /\ InitLateIdle
InitPipeline ==
    InitJobRows /\ InitStoreRows /\ InitPipeRows /\ InitTopicsIdle /\ InitSearchIdle /\ InitEvents /\ InitLateIdle
InitTopics ==
    InitJobRows /\ InitStoreRows /\ InitChunkIdle /\ InitPipeIdle /\ InitTopicRows
       /\ InitSearchIdle /\ InitEvents /\ InitLateIdle
InitSearch ==
    InitJobRows /\ InitStoreRows /\ InitChunkIdle /\ InitPipeIdle /\ InitTopicsIdle
       /\ InitSearchRows /\ InitEvents /\ InitLateIdle

SpecJobs == InitJobs /\ [][NextJobs]_vars
SpecStore == InitStore /\ [][NextStore]_vars
SpecChunks == InitChunks /\ [][NextChunks]_vars
SpecParse == InitParse /\ [][NextParse]_vars
SpecPipeline == InitPipeline /\ [][NextPipeline]_vars
SpecTopics == InitTopics /\ [][NextTopics]_vars
SpecSearch == InitSearch /\ [][NextSearch]_vars
SpecEvents == InitJobs /\ [][NextEvents]_vars
SpecLLM == InitLLM /\ [][NextLLM]_vars
SpecSanitize == InitSanitize /\ [][NextNames]_vars
SpecProgress == InitProgress /\ [][NextProgress]_vars
SpecDownload == InitDownload /\ [][NextDownload]_vars

\* Every attempt of an activity returns, raises or is timed out by
\* start_to_close_timeout: a workflow run that can take a step takes one.
SpecJobsLive == SpecJobs /\ \A j \in JobIds : WF_vars(WorkflowStep(j))

(***************************************************************************)
(* Properties, Part I (checked under SpecJobs).                            *)
(***************************************************************************)
JobRow(j) == <<job_status[j], job_error[j], job_audio_set[j]>>

\* C1: once a Job row's status has been committed as completed or failed,
\* no later step of the workflow (activity retries included) writes that
\* row again: the terminal status never changes afterwards.
C1_TerminalJobRowIsFinal ==
    [][\A j \in JobIds :
          job_status[j] \in Terminal => JobRow(j)' = JobRow(j)]_vars

\* C2: every committed change of a Job's status is pending -> processing,
\* processing -> completed or processing -> failed (the insert of the row
\* as pending aside); no job turns completed or failed straight from
\* pending.
C2_StatusChangesFollowLifecycle ==
    [][\A j \in JobIds :
          job_status'[j] # job_status[j] =>
             <<job_status[j], job_status'[j]>> \in
                {<<"absent", "pending">>, <<"pending", "processing">>,
                 <<"processing", "completed">>, <<"processing", "failed">>}]_vars

\* C3: whenever a workflow run has ended in failure, whichever activity
\* failed on its last attempt, the Job row has status failed and a
\* non-empty error text.
C3_FailedRunLeavesFailedJob ==
    \A j \in JobIds :
       wf[j] = "failed" => job_status[j] = "failed" /\ job_error[j] # ""

\* C4: every TranscribeWorkflow run that has returned success has committed
\* Job.status = completed, also when the embed step found zero chunks.
C4_SuccessfulRunCompletesJob ==
    \A j \in JobIds :
       (wf[j] = "succeeded" /\ wf_kind[j] = "transcription")
          => job_status[j] = "completed"

(***************************************************************************)
(* Properties, Part II (checked under SpecStore).                          *)
(***************************************************************************)
\* C5: no two committed AudioFile rows of the same owner have the same
\* content hash.
C5_Dedup ==
    \A r1, r2 \in audio_files :
       (r1.user_id = r2.user_id /\ r1.checksum = r2.checksum) => r1 = r2

\* Two ingests of the same bytes by one owner raced and the table holds the
\* winner's row.
C5_Witness ==
    \E p \in Procs :
       /\ procs[p].pc = "done"
       /\ procs[p].result = "IntegrityError"
       /\ Cardinality(audio_files) = 1

\* The step in which call p computes the checksum and looks up duplicates,
\* taken while the staged copy holds the bytes p received and a row of p's
\* user with the checksum of those bytes is committed.
C6_SecondIngestStep(p) ==
    /\ procs[p].pc = "staged"
    /\ procs'[p].pc # "staged"
    /\ Exists(Staged(p))
    /\ disk[Staged(p)] = procs[p].bytes
    /\ \E r \in audio_files :
          r.user_id = procs[p].user /\ r.checksum = calculate_checksum(procs[p].bytes)

\* C6: ingesting the same bytes a second time for the same owner, by upload
\* or by download, returns the id of the row of the first ingest with
\* is_duplicate = true, creates no row and no file in the content store,
\* and removes the staged copy.
C6_SecondIngestReturnsFirst ==
    [][\A p \in Procs :
          C6_SecondIngestStep(p) =>
             /\ procs'[p].pc = "done"
             /\ procs'[p].result = "ok"
             /\ procs'[p].is_duplicate
             /\ \E r \in audio_files :
                   /\ r.user_id = procs[p].user
                   /\ r.checksum = calculate_checksum(procs[p].bytes)
                   /\ procs'[p].id = r.id
             /\ audio_files' = audio_files
             /\ DOMAIN disk' = DOMAIN disk \ {Staged(p)}
             /\ \A x \in DOMAIN disk' : disk'[x] = disk[x]]_vars

\* A call returned an existing row as a duplicate: a download of bytes that
\* were uploaded first, or an upload of bytes that were downloaded first.
C6_Witness ==
    \E p \in Procs :
       /\ procs[p].pc = "done" /\ procs[p].result = "ok" /\ procs[p].is_duplicate
       /\ \E r \in audio_files : r.id = procs[p].id
       /\ Cardinality(audio_files) = 1
       /\ \A path \in DOMAIN disk : IsStorePath(path)

\* C7: an ingest whose insert loses the unique-constraint race (both calls
\* passed the duplicate lookup before either committed) does not fail: it
\* returns the winner's row with is_duplicate = true.
C7_RaceLoserReturnsWinner ==
    [][\A p \in Procs :
          (/\ procs[p].pc = "moved"
           /\ procs'[p].pc = "done"
           /\ procs'[p].result # "DBError"
           /\ ~uq_user_checksum(audio_files, procs[p].user, procs[p].checksum))
          => /\ procs'[p].result = "ok"
             /\ procs'[p].is_duplicate
             /\ \E r \in check_duplicate(audio_files, procs[p].user, procs[p].checksum) :
                   procs'[p].id = r.id]_vars

Quiescent == \A p \in Procs : procs[p].pc \in {"idle", "done"}

\* C8: in every state in which no ingest or delete is in progress, a file
\* exists at a stored path iff an AudioFile row with that path exists.
C8_FileIffRow ==
    Quiescent =>
       \A path \in DOMAIN disk \cup {r.file_path : r \in audio_files} :
          IsStorePath(path) =>
             (Exists(path) <=> \E r \in audio_files : r.file_path = path)

\* C9: delete_file deletes the row and commits first and only then attempts
\* the unlink: whenever a delete_file call has attempted the unlink, the
\* row it deletes is no longer committed.
C9_RowDeletedBeforeUnlink ==
    \A p \in Procs :
       procs[p].pc = "unlinked" =>
          ~ \E r \in audio_files : r.id = procs[p].target

\* C10: after a successful delete of an AudioFile no Transcription with
\* that audio_file_id remains and no row of any table (Job rows included)
\* still refers to the file or to the freed path.
C10_NoReferenceAfterDelete ==
    [][\A r \in audio_files :
          r \notin audio_files' =>
             /\ \A t \in transcription_rows' : t.audio_file_id # r.id
             /\ \A jr \in job_rows' :
                   jr.audio_file_id # r.id /\ jr.file_path # r.file_path
             /\ \A r2 \in audio_files' : r2.file_path # r.file_path]_vars

(***************************************************************************)
(* Properties of the workflow driver (SpecJobs, SpecJobsLive).             *)
(***************************************************************************)
ActivityOrder ==
    {<<"none", "transcribe">>, <<"none", "download">>,
     <<"transcribe", "chunk">>, <<"chunk", "assign_topics">>,
     <<"assign_topics", "embed">>}

Configured ==
    [download |-> DownloadMaxAttempts, transcribe |-> TranscribeMaxAttempts,
     chunk |-> ChunkMaxAttempts, assign_topics |-> AssignTopicsMaxAttempts,
     embed |-> EmbedMaxAttempts]

C13_InputErrorNotRetried ==
    [][\A j \in JobIds :
          (wf[j] = "running" /\ pc[j] = "except_input" /\ pc'[j] # pc[j])
             => (wf'[j] = "failed" /\ attempt'[j] = attempt[j])]_vars

(***************************************************************************)
(* Properties, Part III (checked under SpecChunks).                        *)
(***************************************************************************)
DenseIndex(rows) == \A i \in DOMAIN rows : rows[i].chunk_index = i - 1

\* C15: after any number of attempts of the chunk activity the stored chunk
\* rows are numbered 0..N-1 without gap or duplicate, and once an attempt
\* has returned they are exactly the chunks of that attempt: the rows of
\* earlier attempts went in the transaction that wrote the new ones.
C15_RowsAreLastAttempts ==
    /\ DenseIndex(job_chunk_rows)
    /\ chunk_state = "returned" => job_chunk_rows = chunking_result.chunks

\* A second attempt committed over the rows of a first one and returned.
C15_Witness ==
    /\ chunk_state = "returned"
    /\ chunk_commits = 2
    /\ Len(job_chunk_rows) >= 2

\* The characters [start_char_pos, end_char_pos) of a chunk.
CharRange(c) == {k \in 0..(c.end_char_pos - 1) : k >= c.start_char_pos}

\* C16: once the chunk activity has returned and at least one chunk is
\* stored, whichever strategy produced the chunks, their ranges
\* [start_char_pos, end_char_pos) are pairwise disjoint and their union is
\* exactly [0, len(transcript)).
C16_ChunksPartitionTranscript ==
    (chunk_state = "returned" /\ job_chunk_rows # <<>>) =>
       /\ \A i, k \in DOMAIN job_chunk_rows :
             i # k => CharRange(job_chunk_rows[i]) \cap CharRange(job_chunk_rows[k]) = {}
       /\ UNION {CharRange(job_chunk_rows[i]) : i \in DOMAIN job_chunk_rows}
             = 0..(Len(transcript) - 1)

(***************************************************************************)
(* Properties of the LLM path (checked under SpecParse).                   *)
(***************************************************************************)
IsInteger(v) == v[1] = "int"

\* The range validation of one chunk of the answer: both positions are
\* present and are integers, 0 <= start_pos < end_pos <= len(transcript).
PassesValidation(chunk_data, str) ==
    /\ IsInteger(chunk_data.start_pos)
    /\ IsInteger(chunk_data.end_pos)
    /\ 0 <= chunk_data.start_pos[2]
    /\ chunk_data.start_pos[2] < chunk_data.end_pos[2]
    /\ chunk_data.end_pos[2] <= Len(str)

\* The answer's chunks, in order, leave [0, len(transcript)) uncovered or
\* covered twice: the first does not start at 0, the last does not end at
\* len(transcript), or two neighbours do not meet.
BreaksCoverage(data, str) ==
    \/ data[1].start_pos[2] # 0
    \/ data[Len(data)].end_pos[2] # Len(str)
    \/ \E k \in 1..(Len(data) - 1) : data[k + 1].start_pos[2] # data[k].end_pos[2]

UsesFallback ==
    chunking_result.chunks = _fallback_sentence_chunking(transcript, settings)

\* C17: when the LLM answers JSON whose chunks each pass the range
\* validation but together break coverage, the activity returns the chunks
\* of the sentence fallback and not the LLM's.
C17_CoverageBreakFallsBack ==
    (/\ chunk_state = "returned"
     /\ llm_response.kind = "json"
     /\ llm_response.chunks # <<>>
     /\ \A k \in DOMAIN llm_response.chunks :
           PassesValidation(llm_response.chunks[k], transcript)
     /\ BreaksCoverage(llm_response.chunks, transcript))
    => UsesFallback

\* C18: when any chunk of the LLM's JSON fails the validation (a position
\* is missing or is no integer, the range is out of bounds, start_pos >=
\* end_pos), none of the LLM's chunks is used: the activity returns the
\* chunks of the sentence fallback.
C18_AllOrNothing ==
    (/\ chunk_state = "returned"
     /\ llm_response.kind = "json"
     /\ \E k \in DOMAIN llm_response.chunks :
           ~PassesValidation(llm_response.chunks[k], transcript))
    => UsesFallback

(***************************************************************************)
(* Properties, Part III, continued (checked under SpecChunks).             *)
(***************************************************************************)
\* C19: an attempt of the chunk activity that returns has emitted at least
\* one chunk, for every transcript and segment list and on every path
\* (chunking disabled, health check failed, LLM, LLM fallback).
C19_AtLeastOneChunk ==
    chunk_state = "returned" =>
       /\ chunking_result.chunk_count >= 1
       /\ job_chunk_rows # <<>>

(***************************************************************************)
(* Properties, Part IV (checked under SpecPipeline).                       *)
(***************************************************************************)
NoDuplicates(seq) == \A i, k \in DOMAIN seq : seq[i] = seq[k] => i = k

C20_EmptyTranscriptGetsUnknown ==
    (At("done") /\ transcript = <<>>) =>
       /\ job_chunk_rows = <<>>
       /\ transcription_topics = <<"Unknown">>

(***************************************************************************)
(* Properties of the sitting on fallbacks, reloads, embeddings and topics. *)
(***************************************************************************)
AllTopicsNull(chunks) == \A i \in DOMAIN chunks : chunks[i].topic_summary = "none"

\* The LLM path failed: the call still errors after its retries, the answer
\* holds no JSON, or the JSON has no chunk or a chunk that fails validation.
LLMPathFailed ==
    \/ llm_response.kind \in {"http_error", "no_json"}
    \/ /\ llm_response.kind = "json"
       /\ \/ llm_response.chunks = <<>>
          \/ \E k \in DOMAIN llm_response.chunks :
                ~PassesValidation(llm_response.chunks[k], transcript)

\* C21 (under SpecParse): when the LLM path has failed, the chunk activity
\* that returns has stored the chunks of the sentence fallback, all with a
\* null topic_summary: the failure of the LLM does not fail the activity.
C21_LLMFailureFallsBack ==
    (chunk_state = "returned" /\ LLMPathFailed) =>
       /\ UsesFallback
       /\ AllTopicsNull(job_chunk_rows)

\* C22 (under SpecChunks): with semantic chunking enabled, an attempt that
\* stores fallback chunks over the fallback chunks of an earlier attempt
\* stores the same chunks, whichever failure led to each fallback.
C22_FallbackIsDeterministic ==
    [][(/\ settings.enable_semantic_chunking
        /\ chunk_commits >= 1
        /\ chunk_commits' = chunk_commits + 1
        /\ AllTopicsNull(job_chunk_rows)
        /\ AllTopicsNull(job_chunk_rows'))
       => job_chunk_rows' = job_chunk_rows]_vars

Texts(rows) == [i \in DOMAIN rows |-> rows[i].text]

\* C23 (under SpecPipeline): the chunks the topic and embed steps read are
\* the chunks the chunk step committed.
C23_NextStepReadsWhatWasWritten ==
    (At("embed") \/ At("done")) =>
       Texts(transcription_chunks) = Texts(job_chunk_rows)

C25_AtLeastOneTopic ==
    (At("embed") \/ At("done")) =>
       /\ Len(transcription_topics) >= 1
       /\ get_chunk_topic_summaries(transcription_chunks) = <<>>
             => transcription_topics = <<"Unknown">>

(***************************************************************************)
(* Properties, Part V (checked under SpecTopics).                          *)
(***************************************************************************)
\* C26: every TranscriptionTopic row written by topic assignment refers to
\* an existing Topic, and the id list handed to assign_topics holds no id
\* twice.
C26_LinksResolveAndIdsAreDistinct ==
    /\ \A i \in DOMAIN topic_links : TopicExists(topics, topic_links[i])
    /\ NoDuplicates(assign.topic_ids)

\* The parent of a topic, n steps up.
RECURSIVE ParentAt(_, _)
ParentAt(id, n) ==
    IF n = 0 \/ id = NoId THEN id
    ELSE ParentAt(IF TopicExists(topics, id) THEN topics[id].parent_id ELSE NoId, n - 1)

\* C27: after any sequence and interleaving of create_topic and
\* update_topic calls the parent relation is acyclic: no topic is reached
\* from itself by following parent_id.
C27_ParentRelationAcyclic ==
    \A id \in TopicIds, n \in 1..MaxTopicId :
       TopicExists(topics, id) => ParentAt(id, n) # id

\* C28: after any sequence of create, update, delete and seeding
\* operations a topic named Unknown exists.
C28_UnknownAlwaysPresent == get_topic_by_name(topics, "Unknown") # {}

\* The rows of the tables that belong to one user.
OwnedBy(rows, user_id) == {r \in rows : r.user_id = user_id}

\* C29: a search returns only chunks of jobs of the asking user, and it is
\* the answer the same query gets on the tables cut down to that user's rows:
\* the possible answers are the same whatever rows other users have.
C29_SearchSeesOnlyOwnRows ==
    search_result # NoSearch =>
        LET s == search_result
            own == OwnedBy(search_rows, s.user_id)
        IN  /\ \A i \in DOMAIN s.results : s.results[i].user_id = s.user_id
            /\ s.results \in SearchResults(own, s.user_id, s.query_embedding, s.limit)
            /\ SearchResults(search_rows, s.user_id, s.query_embedding, s.limit)
                  = SearchResults(own, s.user_id, s.query_embedding, s.limit)

\* A search answered with a row while another user has a completed,
\* embedded chunk that is nearer to the query.
C29_Witness ==
    /\ search_result # NoSearch
    /\ Len(search_result.results) >= 1
    /\ \E r \in search_rows :
          /\ r.user_id # search_result.user_id
          /\ r.status = "completed"
          /\ r.embedding = search_result.query_embedding
          /\ search_result.results[1].embedding # search_result.query_embedding

\* C30: send_job_update never raises to its caller.
C30_SendNeverFails == send.pc # "raised"

\* C37: an upload in flight that has computed its checksum has computed it
\* of the bytes this call received.
C37_UploadHashesItsOwnBytes ==
    \A p \in Procs :
        (procs[p].op = "upload" /\ procs[p].pc \in {"checked", "moved"})
            => procs[p].checksum = calculate_checksum(procs[p].bytes)

\* C38: the registration of a connection whose socket is open is removed by
\* no step: a step that leaves the socket open leaves a connection registered.
C38_LiveSubscriberStaysRegistered ==
    [][\A c \in Connections :
          (active_connections = c /\ sockets[c] = "open" /\ sockets'[c] = "open")
              => active_connections' # NoConnection]_vars

\* C33: once the transcribe activity has returned, having committed the
\* Transcription as completed, the stored transcript is not empty.
C33_CompletedHasText ==
    (transcription_transcript[1] /\ pipe.activity \notin {"transcribe", "failed"})
        => transcription_transcript[2] # <<>>

\* C34: the chat call is attempted at most max_retries times, and every
\* attempt that was followed by another one ended with a connect error, a
\* timeout or a 5xx response; in particular not with a 4xx response.
C34_OnlyTransientErrorsRetried ==
    /\ Len(llm_call.attempts) <= ollama_max_retries
    /\ \A i \in 1..(Len(llm_call.attempts) - 1) :
          llm_call.attempts[i] \in {"ConnectError", "TimeoutException", "5xx"}

\* The characters the claim allows in the name part.
AllowedChar(c) == c \in {"a", "e", "f", "i", "l", "_", "-"}

\* C36: the name part of a sanitized file name has only characters of
\* [A-Za-z0-9_-], no two underscores in a row, no underscore at either end,
\* and at most 200 characters.
C36_SanitizedNameIsClean ==
    sanitized # NotSanitized =>
        LET name == sanitized.name
        IN  /\ \A i \in 1..Len(name) : AllowedChar(name[i])
            /\ \A i \in 1..(Len(name) - 1) : ~(name[i] = "_" /\ name[i + 1] = "_")
            /\ name[1] # "_"
            /\ name[Len(name)] # "_"
            /\ Len(name) <= DefaultMaxLength

\* C31: the events sent for the job_id are in the order in which they were
\* produced: the progress events of the tasks created by the progress bar
\* among themselves, and with the events the activity sends itself.
C31_EventsInProductionOrder ==
    \A i, j \in DOMAIN bus : i < j => bus[i].stamp < bus[j].stamp

\* The activity has returned after two progress events of the bar's tasks
\* and its own event with progress 60.
C31_Witness ==
    /\ tr.pc = "chunk"
    /\ Len(bus) >= 5
    /\ bus[3].progress > 0 /\ bus[4].progress > bus[3].progress
    /\ bus[Len(bus)].progress = 60

\* C32: every finished attempt of an activity has sent at least two events,
\* and one that raised has sent an event with status failed.
C32_AttemptsSendStartAndEnd ==
    \A i \in DOMAIN act_log :
        /\ Len(act_log[i].events) >= 2
        /\ act_log[i].outcome = "raise"
              => \E k \in DOMAIN act_log[i].events : act_log[i].events[k] = "failed"

\* C35: while the model runs, the progress made is being reported: no more
\* than one update of the progress bar is waiting for its callback to run.
C35_ProgressReportedDuringRun == tr.pc = "model" => Len(ready) <= 1

\* C39: the progress values of the events sent for the job never decrease.
C39_ProgressNeverDecreases ==
    \A i, j \in DOMAIN bus :
        (i < j /\ bus[i].progress # NoProgress /\ bus[j].progress # NoProgress)
            => bus[i].progress <= bus[j].progress

\* C40: once the download activity has returned or raised, its heartbeat
\* task is not running.
C40_HeartbeatTaskStopped ==
    dl.pc \in {"returned", "raised", "cancelled"} => dl.heartbeat_task # "running"

====
